---- MODULE Spec2Model ----
(***************************************************************************)
(* Model of exceltools.py: the column-letter/index codec (col2num,         *)
(* num2col), the date conversion (excel_date), the validators of           *)
(* ExcelSpreadSheet (_validate_column, _validate_row, _validate_cellref,   *)
(* _validate_range) and the operations of an ExcelSpreadSheet object on    *)
(* the workbook it has open in the host application.                       *)
(*                                                                         *)
(* The codec, the date conversion and the validators are pure; each is an  *)
(* operator computed the way the code computes it.  Under Spec a behaviour *)
(* is one call: Init draws the function and its arguments, the function's  *)
(* action applies it and records what the call returned or raised.         *)
(*                                                                         *)
(* Under SpecBook a behaviour is the life of one ExcelSpreadSheet object:  *)
(* a caller makes one operation after the other (open, the writes and      *)
(* reads, the sheet operations, the saves, close).  The host application   *)
(* is reached through COM and is not part of the source; what the model    *)
(* takes the host to do is stated where it is defined (SheetIndex, IsCell, *)
(* RangeAssign, IsRange, delete_sheet, set_sheet_visibility, open).        *)
(*                                                                         *)
(* Python values are records [t, i, s]: t is the type ("None", "int",      *)
(* "str", ...), i the value of an int, s the characters of a str as a      *)
(* sequence of code points (ord) or the items of a collection.  The        *)
(* outcome of a call is a record [kind, exc, val]: kind "return" with val  *)
(* the sequence of values returned (one value, or the two of a tuple), or  *)
(* kind "raise" with exc the class of the exception that propagates.       *)
(***************************************************************************)
EXTENDS Integers, Sequences, FiniteSets, TLC

VARIABLES pc, fn, args, ret,
          wb, _wb_open, sheetnames,
          excel, book,
          calls, warned

vars == <<pc, fn, args, ret, wb, _wb_open, sheetnames, excel, book, calls, warned>>

----------------------------------------------------------------------------
(* Python values and call outcomes *)

PyNone == [t |-> "None", i |-> 0, s |-> <<>>]

PyInt(n) == [t |-> "int", i |-> n, s |-> <<>>]

PyStr(q) == [t |-> "str", i |-> 0, s |-> q]

Return(v) == [kind |-> "return", exc |-> "", val |-> <<v>>]

ReturnTuple(a, b) == [kind |-> "return", exc |-> "", val |-> <<a, b>>]

Raise(e) == [kind |-> "raise", exc |-> e, val |-> <<>>]

NoRet == [kind |-> "none", exc |-> "", val |-> <<>>]

----------------------------------------------------------------------------
(* Characters: code points, as ord() gives them *)

ordA == 65

IsUpper(c) == c \in 65..90

IsLower(c) == c \in 97..122

IsDigit(c) == c \in 48..57

IsAlpha(c) == IsUpper(c) \/ IsLower(c)

RECURSIVE Pow(_, _)
Pow(b, e) == IF e = 0 THEN 1 ELSE b * Pow(b, e - 1)

----------------------------------------------------------------------------
(* col2num: for char in reversed(col_str):                                  *)
(*              col_num += (ord(char) - ord("A") + 1) * (26 ** expn)        *)
(* There is no upper-casing and no check of the characters.                 *)

\* variant: the "+ 1" of the rank forgotten (A = 0)
col2num_term_zero_based(char, expn) == (char - ordA) * Pow(26, expn)

col2num_term(char, expn) == (char - ordA + 1) * Pow(26, expn)

\* variant: "for char in col_str", the reversed() forgotten
RECURSIVE col2num_loop_forward(_, _, _)
col2num_loop_forward(col_str, expn, col_num) ==
    IF expn = Len(col_str)
    THEN col_num
    ELSE col2num_loop_forward(col_str, expn + 1,
                              col_num + col2num_term(col_str[expn + 1], expn))

RECURSIVE col2num_loop(_, _, _)
col2num_loop(col_str, expn, col_num) ==
    IF expn = Len(col_str)
    THEN col_num
    ELSE col2num_loop(col_str, expn + 1,
                      col_num + col2num_term(col_str[Len(col_str) - expn], expn))

\* module-level col2num: isinstance check, then the loop
col2num(col_str) ==
    IF col_str.t # "str" THEN Raise("ValueError")
    ELSE Return(PyInt(col2num_loop(col_str.s, 0, 0)))

\* ExcelSpreadSheet.col2num: no isinstance check; reversed() of a non-sequence
\* raises TypeError
ExcelSpreadSheet_col2num(col_str) ==
    IF col_str.t # "str" THEN Raise("TypeError")
    ELSE Return(PyInt(col2num_loop(col_str.s, 0, 0)))

----------------------------------------------------------------------------
(* num2col: while col_int > 0:                                              *)
(*              col_int, remainder = divmod(col_int - 1, 26)                *)
(*              col_str = chr(65 + remainder) + col_str                     *)

\* variant: divmod(col_int, 26), the "- 1" forgotten
num2col_step_no_offset(col_int, col_str) ==
    <<col_int \div 26, <<65 + (col_int % 26)>> \o col_str>>

num2col_step(col_int, col_str) ==
    <<(col_int - 1) \div 26, <<65 + ((col_int - 1) % 26)>> \o col_str>>

\* variant: col_str = col_str + chr(65 + remainder), appended instead of
\* prepended
RECURSIVE num2col_loop_append(_, _)
num2col_loop_append(col_int, col_str) ==
    IF col_int > 0
    THEN num2col_loop_append((col_int - 1) \div 26,
                             col_str \o <<65 + ((col_int - 1) % 26)>>)
    ELSE col_str

RECURSIVE num2col_loop(_, _)
num2col_loop(col_int, col_str) ==
    IF col_int > 0
    THEN LET st == num2col_step(col_int, col_str) IN num2col_loop(st[1], st[2])
    ELSE col_str

\* module-level num2col: isinstance check, then the loop
num2col(col_int) ==
    IF col_int.t # "int" THEN Raise("ValueError")
    ELSE Return(PyStr(num2col_loop(col_int.i, <<>>)))

\* ExcelSpreadSheet.num2col: no isinstance check; None > 0 and "A" > 0 raise
\* TypeError
ExcelSpreadSheet_num2col(col_int) ==
    IF col_int.t # "int" THEN Raise("TypeError")
    ELSE Return(PyStr(num2col_loop(col_int.i, <<>>)))

----------------------------------------------------------------------------
(* Built-ins the validators use *)

IsSpace(c) == c \in {9, 10, 11, 12, 13, 32}

RECURSIVE LStrip(_)
LStrip(q) == IF q # <<>> /\ IsSpace(Head(q)) THEN LStrip(Tail(q)) ELSE q

RECURSIVE RStrip(_)
RStrip(q) ==
    IF q # <<>> /\ IsSpace(q[Len(q)]) THEN RStrip(SubSeq(q, 1, Len(q) - 1)) ELSE q

RECURSIVE DigitsValue(_, _)
DigitsValue(q, acc) ==
    IF q = <<>> THEN acc ELSE DigitsValue(Tail(q), acc * 10 + (Head(q) - 48))

\* int(x): an int is returned as it is; a str is stripped of white space and
\* read as an optional sign and decimal digits, ValueError otherwise.  (The
\* "_" digit separator int() also accepts is not a character of the inputs.)
int(x) ==
    IF x.t = "int" THEN Return(x)
    ELSE IF x.t = "None" THEN Raise("TypeError")
    ELSE LET value(neg, d) ==
                 IF d = <<>> \/ \E k \in 1..Len(d) : ~IsDigit(d[k])
                 THEN Raise("ValueError")
                 ELSE Return(PyInt(IF neg THEN 0 - DigitsValue(d, 0)
                                          ELSE DigitsValue(d, 0)))
             stripped(b) ==
                 IF b # <<>> /\ b[1] \in {43, 45}
                 THEN value(b[1] = 45, Tail(b))
                 ELSE value(FALSE, b)
         IN  stripped(RStrip(LStrip(x.s)))

RECURSIVE DecimalDigits(_)
DecimalDigits(n) ==
    IF n < 10 THEN <<48 + n>> ELSE DecimalDigits(n \div 10) \o <<48 + (n % 10)>>

\* str(n) of an int: its decimal digits, "-" first when negative
str(n) == IF n < 0 THEN <<45>> \o DecimalDigits(0 - n) ELSE DecimalDigits(n)

\* Number of letters ([a-zA-Z]) of q from index i on
RECURSIVE AlphaSpan(_, _)
AlphaSpan(q, i) == IF i <= Len(q) /\ IsAlpha(q[i]) THEN 1 + AlphaSpan(q, i + 1) ELSE 0

\* Number of digits (\d) of q from index i on
RECURSIVE DigitSpan(_, _)
DigitSpan(q, i) == IF i <= Len(q) /\ IsDigit(q[i]) THEN 1 + DigitSpan(q, i + 1) ELSE 0

\* "$" of re: the end of the string, or just before a final newline
AtEnd(q, j) == j = Len(q) + 1 \/ (j = Len(q) /\ q[j] = 10)

----------------------------------------------------------------------------
(* The exception classes.  Error.__init__ calls Exception.__init__() with   *)
(* no instance, which raises TypeError: constructing InvalidSheetError,     *)
(* InvalidCellRefError or InvalidRangeError never completes, and a          *)
(* "raise InvalidRangeError(msg)" propagates that TypeError.                *)

Error_init(cls) == "TypeError"

RaiseError(cls) == Raise(Error_init(cls))

----------------------------------------------------------------------------
(* ExcelSpreadSheet._validate_column *)

MaxColumn == 18278

_validate_column_bound(col) ==
    IF col.i > MaxColumn THEN Raise("ValueError") ELSE Return(col)

_validate_column(col) ==
    IF col.t = "None" THEN Return(col)
    ELSE IF col.t = "str"
    THEN IF \E k \in 1..Len(col.s) : ~(IsAlpha(col.s[k]) \/ IsDigit(col.s[k]))
         THEN Raise("ValueError")
         ELSE IF Len(col.s) > 3
         THEN Raise("ValueError")
         ELSE _validate_column_bound(ExcelSpreadSheet_col2num(col).val[1])
    ELSE _validate_column_bound(col)

(* ExcelSpreadSheet._validate_row *)

_validate_row(row) ==
    IF row.t = "None" THEN Return(row) ELSE int(row)

----------------------------------------------------------------------------
(* ExcelSpreadSheet._validate_cellref *)

\* re.match(self._cell_regex, q) is not None, _cell_regex = ^[a-zA-Z]{1}\d+$
cell_regex_match(q) ==
    /\ AlphaSpan(q, 1) >= 1
    /\ DigitSpan(q, 2) >= 1
    /\ AtEnd(q, 2 + DigitSpan(q, 2))

\* col, row = cellref[0], int(cellref[1]): the first character, and the int
\* of the second character alone
_validate_cellref_split(cellref) ==
    IF cellref.t # "str" THEN Raise("TypeError")
    ELSE IF Len(cellref.s) < 2 THEN Raise("IndexError")
    ELSE LET row == int(PyStr(<<cellref.s[2]>>))
         IN  IF row.kind = "raise" THEN row
             ELSE ReturnTuple(row.val[1], PyStr(<<cellref.s[1]>>))

_validate_cellref(cellref, row, col) ==
    IF row.t = "None" /\ col.t = "None" /\ cellref.t = "None"
    THEN RaiseError("InvalidCellRefError")
    ELSE IF row.t # "None" /\ col.t # "None" /\ cellref.t # "None"
    THEN RaiseError("InvalidCellRefError")
    ELSE IF row.t = "None" /\ col.t = "None" /\ cellref.t # "None" /\ cellref.t # "str"
    THEN Raise("TypeError")
    ELSE IF row.t = "None" /\ col.t = "None" /\ cellref.t # "None"
            /\ ~cell_regex_match(cellref.s)
    THEN RaiseError("InvalidCellRefError")
    ELSE IF cellref.t = "None"
    THEN LET r == _validate_row(row)
             c == _validate_column(col)
         IN  IF r.kind = "raise" THEN r
             ELSE IF c.kind = "raise" THEN c
             ELSE ReturnTuple(r.val[1], c.val[1])
    ELSE _validate_cellref_split(cellref)

----------------------------------------------------------------------------
(* ExcelSpreadSheet._validate_range *)

NoMatch ==
    [m |-> FALSE, cols_only |-> FALSE,
     col_1 |-> <<>>, row_1 |-> <<>>, col_2 |-> <<>>, row_2 |-> <<>>]

\* re.match(self._range_regex, q), with
\*   _range_regex = (^[a-zA-Z]{1,3})(\d+):([a-zA-Z]{1,3})(\d+$)|
\*                  (^[a-zA-Z]{1,3}:[a-zA-Z]{1,3}$)
\* Letters, digits and ":" are disjoint, so each group is the whole run of
\* its characters: a1 letters, d1 digits, ":", a2 letters, d2 digits.
range_regex_match(q) ==
    LET groups(a1, d1, p, a2, d2) ==
            IF a1 \notin 1..3 \/ p > Len(q) \/ q[p] # 58 \/ a2 \notin 1..3
            THEN NoMatch
            ELSE IF d1 >= 1 /\ d2 >= 1 /\ AtEnd(q, p + a2 + d2 + 1)
            THEN [m |-> TRUE, cols_only |-> FALSE,
                  col_1 |-> SubSeq(q, 1, a1),
                  row_1 |-> SubSeq(q, a1 + 1, a1 + d1),
                  col_2 |-> SubSeq(q, p + 1, p + a2),
                  row_2 |-> SubSeq(q, p + a2 + 1, p + a2 + d2)]
            ELSE IF d1 = 0 /\ AtEnd(q, p + a2 + 1)
            THEN [m |-> TRUE, cols_only |-> TRUE,
                  col_1 |-> <<>>, row_1 |-> <<>>, col_2 |-> <<>>, row_2 |-> <<>>]
            ELSE NoMatch
        a1 == AlphaSpan(q, 1)
        d1 == DigitSpan(q, a1 + 1)
        p  == a1 + d1 + 1
        a2 == AlphaSpan(q, p + 1)
        d2 == DigitSpan(q, p + a2 + 1)
    IN  groups(a1, d1, p, a2, d2)

\* The first outcome of the sequence rs that is a raise, or Return(None)
RECURSIVE FirstRaise(_)
FirstRaise(rs) ==
    IF rs = <<>> THEN Return(PyNone)
    ELSE IF Head(rs).kind = "raise" THEN Head(rs)
    ELSE FirstRaise(Tail(rs))

\* lines 349-374: a range text and no coordinates
_validate_range_text(_range) ==
    LET validated(col_1, col_2, row_1, row_2, bad) ==
            IF bad.kind = "raise" THEN bad
            ELSE IF col_1.val[1].i > col_2.val[1].i
            THEN RaiseError("InvalidRangeError")
            ELSE IF row_1.val[1].i > row_2.val[1].i
            THEN RaiseError("InvalidRangeError")
            ELSE Return(_range)
        groups(col_1, col_2, row_1, row_2) ==
            validated(col_1, col_2, row_1, row_2,
                      FirstRaise(<<col_1, col_2, row_1, row_2>>))
        matched(match) ==
            IF ~match.m
            THEN Raise("AttributeError")  \* match.group(1) of None, before the check
            ELSE IF match.cols_only
            THEN Return(_range)
            ELSE groups(_validate_column(PyStr(match.col_1)),
                        _validate_column(PyStr(match.col_2)),
                        _validate_row(PyStr(match.row_1)),
                        _validate_row(PyStr(match.row_2)))
    IN  IF _range.t # "str" THEN Raise("TypeError")
        ELSE matched(range_regex_match(_range.s))

\* variant: the two row numbers written in each other's place
_validate_range_coords_rows_swapped(_range, startrow, endrow, startcol, endcol) ==
    LET coords == {startrow, endrow, startcol, endcol}
    IN  IF (\E c \in coords : c.t # "None") /\ (\E c \in coords : c.t = "None")
        THEN RaiseError("InvalidRangeError")
        ELSE IF (\A c \in coords : c.t # "None") /\ _range.t # "None"
        THEN RaiseError("InvalidRangeError")
        ELSE IF startcol.t = "None"
        THEN Raise("TypeError")
        ELSE IF startcol.i > endcol.i
        THEN RaiseError("InvalidRangeError")
        ELSE IF startrow.i > endrow.i
        THEN RaiseError("InvalidRangeError")
        ELSE Return(PyStr(ExcelSpreadSheet_num2col(startcol).val[1].s \o str(endrow.i)
                          \o <<58>>
                          \o ExcelSpreadSheet_num2col(endcol).val[1].s \o str(startrow.i)))

\* lines 375-386: the coordinates, already validated
_validate_range_coords(_range, startrow, endrow, startcol, endcol) ==
    LET coords == {startrow, endrow, startcol, endcol}
    IN  IF (\E c \in coords : c.t # "None") /\ (\E c \in coords : c.t = "None")
        THEN RaiseError("InvalidRangeError")
        ELSE IF (\A c \in coords : c.t # "None") /\ _range.t # "None"
        THEN RaiseError("InvalidRangeError")
        ELSE IF startcol.t = "None"
        THEN Raise("TypeError")            \* None > None
        ELSE IF startcol.i > endcol.i
        THEN RaiseError("InvalidRangeError")
        ELSE IF startrow.i > endrow.i
        THEN RaiseError("InvalidRangeError")
        ELSE Return(PyStr(ExcelSpreadSheet_num2col(startcol).val[1].s \o str(startrow.i)
                          \o <<58>>
                          \o ExcelSpreadSheet_num2col(endcol).val[1].s \o str(endrow.i)))

_validate_range(_range, startrow, endrow, startcol, endcol) ==
    LET checked(sc, ec, sr, er, bad) ==
            IF bad.kind = "raise" THEN bad
            ELSE IF _range.t # "None"
                    /\ \A c \in {sr, er, sc, ec} : c.val[1].t = "None"
            THEN _validate_range_text(_range)
            ELSE _validate_range_coords(_range, sr.val[1], er.val[1],
                                        sc.val[1], ec.val[1])
        validated(sc, ec, sr, er) ==
            checked(sc, ec, sr, er, FirstRaise(<<sc, ec, sr, er>>))
    IN  validated(_validate_column(startcol), _validate_column(endcol),
                  _validate_row(startrow), _validate_row(endrow))

----------------------------------------------------------------------------
(* excel_date (the module function and the static method have the same     *)
(* body).  A date is [t |-> "date", s |-> <<year, month, day>>], a          *)
(* datetime [t |-> "datetime", s |-> <<year, month, day, second of the      *)
(* day>>], a pandas Series of timestamps [t |-> "Series"] with s the        *)
(* timestamps' four numbers one after the other.  The float                 *)
(* days + seconds / 86400 is kept exact as [t |-> "float", i |-> days,      *)
(* s |-> <<seconds>>]: 1.5 is 1 day and 43200 seconds.                      *)

PyDate(y, m, d) == [t |-> "date", i |-> 0, s |-> <<y, m, d>>]

PyDatetime(y, m, d, sec) == [t |-> "datetime", i |-> 0, s |-> <<y, m, d, sec>>]

PySeries(q) == [t |-> "Series", i |-> 0, s |-> q]

PyFloat(days, seconds) == [t |-> "float", i |-> days, s |-> <<seconds>>]

SecondsPerDay == 86400

IsLeap(y) == y % 4 = 0 /\ (y % 100 # 0 \/ y % 400 = 0)

DaysInMonth(y, m) ==
    IF m = 2 THEN (IF IsLeap(y) THEN 29 ELSE 28)
    ELSE IF m \in {4, 6, 9, 11} THEN 30 ELSE 31

RECURSIVE DaysBeforeMonth(_, _)
DaysBeforeMonth(y, m) ==
    IF m = 1 THEN 0 ELSE DaysBeforeMonth(y, m - 1) + DaysInMonth(y, m - 1)

\* date.toordinal(): the day number in the proleptic Gregorian calendar
toordinal(y, m, d) ==
    LET p == y - 1
    IN  p * 365 + (p \div 4) - (p \div 100) + (p \div 400) + DaysBeforeMonth(y, m) + d

\* temp = dt.datetime(1899, 12, 30)
EpochOrdinal == toordinal(1899, 12, 30)

\* delta = date1 - temp; float(delta.days) + float(delta.seconds) / 86400
excel_date_delta(y, m, d, sec) ==
    <<toordinal(y, m, d) - EpochOrdinal, sec % SecondsPerDay>>

\* the Series branch: the same formula on every timestamp, in order
RECURSIVE excel_date_series(_)
excel_date_series(q) ==
    IF q = <<>> THEN <<>>
    ELSE excel_date_delta(q[1], q[2], q[3], q[4]) \o excel_date_series(SubSeq(q, 5, Len(q)))

\* A datetime is a date too (datetime is a subclass of date), so the inner
\* isinstance(date1, dt.date) holds for both, and datetime.combine(date1,
\* datetime.min.time()) keeps the date of date1 and sets the time to midnight.
excel_date(date1) ==
    IF date1.t \in {"date", "datetime"}
    THEN LET delta == excel_date_delta(date1.s[1], date1.s[2], date1.s[3], 0)
         IN  Return(PyFloat(delta[1], delta[2]))
    ELSE IF date1.t = "Series"
    THEN Return(PySeries(excel_date_series(date1.s)))
    ELSE Raise("TypeError")

ExcelSpreadSheet_excel_date(date1) == excel_date(date1)

----------------------------------------------------------------------------
(* The ExcelSpreadSheet object and the host application.                    *)
(*                                                                          *)
(* The object's fields are the variables wb (None, or the handle of a       *)
(* workbook), _wb_open and sheetnames.  The host application is reached     *)
(* through COM: excel holds the properties of the application, book the     *)
(* sheets of the workbook that wb refers to (no sheets: no workbook), each  *)
(* sheet with its name, its ProtectContents, Visible and EnableSelection    *)
(* properties and the values of its cells.  calls is the sequence of calls  *)
(* and property accesses the last operation made on the host, warned tells  *)
(* whether it issued a warning.                                             *)

PyWorkbook == [t |-> "Workbook", i |-> 0, s |-> <<>>]

PyBool(b) == [t |-> "bool", i |-> IF b THEN 1 ELSE 0, s |-> <<>>]

PyList(q) == [t |-> "list", i |-> 0, s |-> q]

PyTuple(q) == [t |-> "tuple", i |-> 0, s |-> q]

PySet(q) == [t |-> "set", i |-> 0, s |-> q]

\* a DataFrame of nrows rows and ncols columns
PyDataFrame(nrows, ncols) == [t |-> "DataFrame", i |-> 0, s |-> <<nrows, ncols>>]

\* keyword arguments: the keys, in the order given
PyKwargs(q) == [t |-> "kwargs", i |-> 0, s |-> q]

\* the error value #N/A the host puts in the cells of a range that the
\* array assigned to it does not reach
xlErrNA == [t |-> "error", i |-> 0, s |-> <<35, 78, 47, 65>>]

Sheet1 == PyStr(<<83, 104, 101, 101, 116, 49>>)

Sheet2 == PyStr(<<83, 104, 101, 101, 116, 50>>)

NoCells == [x \in {} |-> PyNone]

Worksheet(name) ==
    [Name |-> name, ProtectContents |-> FALSE, Visible |-> PyInt(-1),
     EnableSelection |-> "xlNoRestrictions", Cells |-> NoCells]

\* the workbook Workbooks.Add() creates, and the workbook of an existing file
NewBook == <<Worksheet(Sheet1)>>

FileBook == <<Worksheet(Sheet1), Worksheet(Sheet2)>>

NoBook == <<>>

\* the application client.gencache.EnsureDispatch("Excel.Application") gives
Application ==
    [Visible |-> TRUE, Interactive |-> TRUE, DisplayAlerts |-> TRUE,
     ScreenUpdating |-> TRUE, EnableEvents |-> TRUE, DisplayStatusBar |-> TRUE,
     Calculation |-> "xlCalculationAutomatic", Running |-> TRUE]

\* one call or property access on the host, with its arguments
HostCall(name, a) == [call |-> name, a |-> a]

\* wb.Sheets(sheet): the position of the sheet of that name or index in the
\* workbook, 0 when the host finds none (the host then raises com_error)
SheetIndex(b, sheet) ==
    IF sheet.t = "int"
    THEN (IF sheet.i \in 1..Len(b) THEN sheet.i ELSE 0)
    ELSE IF \E k \in 1..Len(b) : b[k].Name = sheet
    THEN CHOOSE k \in 1..Len(b) : b[k].Name = sheet
    ELSE 0

\* the names of the sheets of the workbook, in order (for sheet in wb.Sheets)
SheetNames(b) == [k \in 1..Len(b) |-> b[k].Name]

\* sheet.Cells(row, col) exists for a row and a column counted from 1
IsCell(row, col) == row.t = "int" /\ col.t = "int" /\ row.i >= 1 /\ col.i >= 1

\* Range(Cells(r1, c1), Cells(r2, c2)).Value = values, values a sequence of
\* rows: the host takes the two cells as opposite corners, gives each cell of
\* the range the value at its place in the array and #N/A to the cells the
\* array does not reach; a range smaller than the array takes its part.
RangeAssign(cells, r1, c1, r2, c2, values) ==
    LET top    == IF r1 <= r2 THEN r1 ELSE r2
        bottom == IF r1 <= r2 THEN r2 ELSE r1
        left   == IF c1 <= c2 THEN c1 ELSE c2
        right  == IF c1 <= c2 THEN c2 ELSE c1
        rng    == (top..bottom) \X (left..right)
        at(x)  == LET i == x[1] - top + 1
                      j == x[2] - left + 1
                  IN  IF i <= Len(values) /\ j <= Len(values[i])
                      THEN values[i][j] ELSE xlErrNA
    IN  [x \in DOMAIN cells \cup rng |-> IF x \in rng THEN at(x) ELSE cells[x]]

\* Range(...).Value of one cell: None for a cell never written
CellValue(cells, row, col) ==
    IF <<row, col>> \in DOMAIN cells THEN cells[<<row, col>>] ELSE PyNone

\* the state after __init__ (lines 130-148)
ExcelSpreadSheet_init ==
    /\ wb = PyNone
    /\ _wb_open = 0
    /\ sheetnames = <<>>
    /\ excel = Application
    /\ book = NoBook
    /\ calls = <<>>
    /\ warned = FALSE

\* NoWorkbookError.__init__ calls Exception.__init__() with no instance as
\* Error.__init__ does: "raise NoWorkbookError()" propagates TypeError
NoWorkbookError_init == "TypeError"

_validate_workbook ==
    IF _wb_open = 0 THEN Raise(NoWorkbookError_init) ELSE Return(PyNone)

_validate_worksheet(sheet) ==
    IF sheet.t = "str"
    THEN (IF \E k \in 1..Len(sheetnames) : sheetnames[k] = sheet
          THEN Return(PyNone) ELSE RaiseError("InvalidSheetError"))
    ELSE IF sheet.t = "int"
    THEN (IF Len(sheetnames) < sheet.i
          THEN RaiseError("InvalidSheetError") ELSE Return(PyNone))
    ELSE Return(PyNone)

----------------------------------------------------------------------------
(* The calls: which function, with which arguments *)

MaxLen == 4        \* longest string passed to the codec and the validators

MaxCellLen == 3    \* longest cell reference text

Extra == 3         \* how far the integers reach below 1 and above MaxColumn

MaxCoord == 3      \* largest of the small row and column coordinates

\* A B Z a z, 0 1 5, ":", "-", newline
Alphabet == {65, 66, 90, 97, 122, 48, 49, 53, 58, 45, 10}

\* columns as a caller gives them: absent, an index, or letters
ColInputs ==
    {PyNone} \cup {PyInt(n) : n \in 0..MaxCoord}
             \cup {PyInt(27), PyInt(MaxColumn), PyInt(MaxColumn + 1)}
             \cup {PyStr(<<66>>), PyStr(<<98>>)}

\* rows as a caller gives them: absent, a number, or its text
RowInputs ==
    {PyNone} \cup {PyInt(n) : n \in 0..MaxCoord}
             \cup {PyInt(10), PyStr(<<53>>), PyStr(<<120>>)}

\* range texts: <col><row>:<col><row> over a few columns and rows, the
\* whole-column forms, and texts that are no range
RangeCols == {<<65>>, <<66>>, <<97>>, <<65, 65>>, <<90, 90, 90>>, <<122, 122, 122>>,
              <<65, 65, 65, 65>>}

RangeRows == {<<49>>, <<50>>, <<51>>, <<49, 48>>, <<48, 53>>}

MaxSeries == 2     \* longest Series of timestamps

Years == {1899, 1900, 2024}

Months == {1, 2, 3, 12}

Days == {1, 28, 29, 30, 31}

\* seconds of the day: midnight, one second, 06:00, midday, 23:59:59
DaySeconds == {0, 1, 21600, 43200, 86399}

\* the timestamps of a Series
Stamps == {<<1899, 12, 31, 43200>>, <<1900, 1, 1, 0>>, <<2024, 2, 29, 86399>>}

RECURSIVE Flatten(_)
Flatten(qs) == IF qs = <<>> THEN <<>> ELSE Head(qs) \o Flatten(Tail(qs))

\* texts that are no range, and whole-column and bounded texts that end in
\* a newline
OtherTexts ==
    {<<>>, <<65, 49>>, <<65, 49, 58, 66>>, <<49, 65, 58, 66, 50>>,
     <<65, 49, 58, 66, 51, 10>>, <<65, 58, 66, 10>>, <<65, 49, 45, 66, 51>>}

----------------------------------------------------------------------------
(* The state machine: one call, from its arguments to its outcome *)

Init ==
    /\ pc = "call"
    /\ ret = NoRet
    /\ ExcelSpreadSheet_init
    /\ \/ /\ fn = "col2num"
          /\ \E x \in {PyNone, PyInt(1)} : args = <<x>>
       \/ /\ fn = "col2num"
          /\ \E k \in 0..MaxLen : \E q \in [1..k -> Alphabet] : args = <<PyStr(q)>>
       \/ /\ fn = "ExcelSpreadSheet.col2num"
          /\ \E x \in {PyNone, PyInt(1)} : args = <<x>>
       \/ /\ fn = "ExcelSpreadSheet.col2num"
          /\ \E k \in 0..MaxLen : \E q \in [1..k -> Alphabet] : args = <<PyStr(q)>>
       \/ /\ fn \in {"num2col", "ExcelSpreadSheet.num2col"}
          /\ \E x \in {PyNone, PyStr(<<65>>)} : args = <<x>>
       \/ /\ fn \in {"num2col", "ExcelSpreadSheet.num2col"}
          /\ \E n \in (0 - Extra)..(MaxColumn + Extra) : args = <<PyInt(n)>>
       \/ /\ fn = "_validate_column"
          /\ args = <<PyNone>>
       \/ /\ fn = "_validate_column"
          /\ \E n \in (0 - Extra)..(MaxColumn + Extra) : args = <<PyInt(n)>>
       \/ /\ fn = "_validate_column"
          /\ \E k \in 0..MaxLen : \E q \in [1..k -> Alphabet] : args = <<PyStr(q)>>
       \/ /\ fn = "_validate_row"
          /\ args = <<PyNone>>
       \/ /\ fn = "_validate_row"
          /\ \E n \in (0 - Extra)..Extra : args = <<PyInt(n)>>
       \/ /\ fn = "_validate_row"
          /\ \E k \in 0..MaxLen : \E q \in [1..k -> Alphabet] : args = <<PyStr(q)>>
       \/ /\ fn = "_validate_cellref"
          /\ \E row \in RowInputs, col \in ColInputs : args = <<PyNone, row, col>>
       \/ /\ fn = "_validate_cellref"
          /\ \E k \in 0..MaxCellLen : \E q \in [1..k -> Alphabet] :
                \E row \in RowInputs, col \in ColInputs : args = <<PyStr(q), row, col>>
       \/ /\ fn = "_validate_range"
          /\ \E r \in {PyNone, PyStr(<<65, 49, 58, 66, 51>>)} :
                \E sr \in RowInputs, er \in RowInputs, sc \in ColInputs, ec \in ColInputs :
                   args = <<r, sr, er, sc, ec>>
       \/ /\ fn = "_validate_range"
          /\ \E c1 \in RangeCols, r1 \in RangeRows, c2 \in RangeCols, r2 \in RangeRows :
                args = <<PyStr(c1 \o r1 \o <<58>> \o c2 \o r2),
                         PyNone, PyNone, PyNone, PyNone>>
       \/ /\ fn = "_validate_range"
          /\ \E c1 \in RangeCols, c2 \in RangeCols :
                args = <<PyStr(c1 \o <<58>> \o c2), PyNone, PyNone, PyNone, PyNone>>
       \/ /\ fn = "_validate_range"
          /\ \E q \in OtherTexts : args = <<PyStr(q), PyNone, PyNone, PyNone, PyNone>>
       \/ /\ fn \in {"excel_date", "ExcelSpreadSheet.excel_date"}
          /\ \E y \in Years, m \in Months :
                \E d \in {x \in Days : x <= DaysInMonth(y, m)} : args = <<PyDate(y, m, d)>>
       \/ /\ fn \in {"excel_date", "ExcelSpreadSheet.excel_date"}
          /\ \E y \in Years, m \in Months, sec \in DaySeconds :
                \E d \in {x \in Days : x <= DaysInMonth(y, m)} :
                   args = <<PyDatetime(y, m, d, sec)>>
       \/ /\ fn \in {"excel_date", "ExcelSpreadSheet.excel_date"}
          /\ \E k \in 0..MaxSeries : \E qs \in [1..k -> Stamps] :
                args = <<PySeries(Flatten(qs))>>
       \/ /\ fn \in {"excel_date", "ExcelSpreadSheet.excel_date"}
          /\ \E x \in {PyNone, PyInt(2), PyStr(<<65>>)} : args = <<x>>

Done(r) ==
    /\ pc = "call"
    /\ pc' = "done"
    /\ ret' = r
    /\ UNCHANGED <<fn, args, wb, _wb_open, sheetnames, excel, book, calls, warned>>

Call_col2num == fn = "col2num" /\ Done(col2num(args[1]))

Call_ExcelSpreadSheet_col2num ==
    fn = "ExcelSpreadSheet.col2num" /\ Done(ExcelSpreadSheet_col2num(args[1]))

Call_num2col == fn = "num2col" /\ Done(num2col(args[1]))

Call_ExcelSpreadSheet_num2col ==
    fn = "ExcelSpreadSheet.num2col" /\ Done(ExcelSpreadSheet_num2col(args[1]))

Call_validate_column == fn = "_validate_column" /\ Done(_validate_column(args[1]))

Call_validate_row == fn = "_validate_row" /\ Done(_validate_row(args[1]))

Call_validate_cellref ==
    fn = "_validate_cellref" /\ Done(_validate_cellref(args[1], args[2], args[3]))

Call_validate_range ==
    fn = "_validate_range"
    /\ Done(_validate_range(args[1], args[2], args[3], args[4], args[5]))

Call_excel_date == fn = "excel_date" /\ Done(excel_date(args[1]))

Call_ExcelSpreadSheet_excel_date ==
    fn = "ExcelSpreadSheet.excel_date" /\ Done(ExcelSpreadSheet_excel_date(args[1]))

Next ==
    \/ Call_col2num
    \/ Call_ExcelSpreadSheet_col2num
    \/ Call_num2col
    \/ Call_ExcelSpreadSheet_num2col
    \/ Call_validate_column
    \/ Call_validate_row
    \/ Call_validate_cellref
    \/ Call_validate_range
    \/ Call_excel_date
    \/ Call_ExcelSpreadSheet_excel_date

Spec == Init /\ [][Next]_vars

----------------------------------------------------------------------------
(* The operations of an ExcelSpreadSheet object.  Each operation is an      *)
(* operator from the current state and the arguments to its effect: what    *)
(* the call returns or raises, the calls it makes on the host, whether it   *)
(* warns, and the fields of the object and the state of the host after it.  *)

\* the effect of doing nothing
Same ==
    [ret |-> NoRet, calls |-> <<>>, warned |-> FALSE,
     wb |-> wb, wb_open |-> _wb_open, sheetnames |-> sheetnames,
     excel |-> excel, book |-> book]

\* the call returns or raises r after the host calls of log, nothing changed
Outcome(r, log) == [Same EXCEPT !.ret = r, !.calls = log]

\* lines 388-420 on the data of the inputs: a DataFrame or Series of numbers
\* without nulls is left as it is, a list has no fillna (AttributeError), any
\* other object is returned unchanged
_cleanse_data(data) ==
    IF data.t = "list" THEN Raise("AttributeError") ELSE Return(data)

\* the rows of values of a DataFrame of the inputs (every value is 7) and
\* its column names (the default names 0, 1, ...)
DataFrameValues(data) == [i \in 1..data.s[1] |-> [j \in 1..data.s[2] |-> PyInt(7)]]

DataFrameColumns(data) == [j \in 1..data.s[2] |-> PyInt(j - 1)]

(* ExcelSpreadSheet.open.  isfile is os.path.isfile(file); head tells how   *)
(* far the calls that fetch the workbook get, tail which of the calls       *)
(* after them raises (0: none).                                             *)

OpenFlags ==
    <<"Visible", "Interactive", "DisplayAlerts", "ScreenUpdating", "EnableEvents",
      "DisplayStatusBar">>

\* the application after the first k of the six properties are set to False
FlagsSet(e, k) ==
    [f \in DOMAIN e |->
        IF \E j \in 1..k : OpenFlags[j] = f THEN FALSE ELSE e[f]]

FlagCalls(k) == [j \in 1..k |-> HostCall(OpenFlags[j] \o "=", <<PyBool(FALSE)>>)]

NameCalls(k) == [j \in 1..k |-> HostCall("Name", <<PyInt(j)>>)]

\* the message of a refused write reads the Name of the sheet
NameCall(n) == <<HostCall("Name", <<PyInt(n)>>)>>

\* lines 465-474, entered with the workbook b fetched after the calls of log
open_tail(b, log, tail) ==
    LET n == Len(b)
    IN  IF tail \in 1..6
        THEN [Same EXCEPT !.ret = Raise("com_error"), !.calls = log \o FlagCalls(tail),
                          !.wb = PyWorkbook, !.book = b,
                          !.excel = FlagsSet([excel EXCEPT !.Running = TRUE], tail - 1)]
        ELSE IF tail = 7
        THEN [Same EXCEPT !.ret = Raise("com_error"),
                          !.calls = log \o FlagCalls(6) \o <<HostCall("Sheets", <<>>)>>,
                          !.wb = PyWorkbook, !.book = b, !.wb_open = 1,
                          !.excel = FlagsSet([excel EXCEPT !.Running = TRUE], 6)]
        ELSE IF tail - 7 \in 1..n
        THEN [Same EXCEPT !.ret = Raise("com_error"),
                          !.calls = log \o FlagCalls(6) \o <<HostCall("Sheets", <<>>)>>
                                        \o NameCalls(tail - 7),
                          !.wb = PyWorkbook, !.book = b, !.wb_open = 1,
                          !.sheetnames = sheetnames \o SubSeq(SheetNames(b), 1, tail - 8),
                          !.excel = FlagsSet([excel EXCEPT !.Running = TRUE], 6)]
        ELSE [Same EXCEPT !.ret = Return(PyNone),
                          !.calls = log \o FlagCalls(6) \o <<HostCall("Sheets", <<>>)>>
                                        \o NameCalls(n),
                          !.wb = PyWorkbook, !.book = b, !.wb_open = 1,
                          !.sheetnames = sheetnames \o SheetNames(b),
                          !.excel = FlagsSet([excel EXCEPT !.Running = TRUE], 6)]

open(file, isfile, head, tail) ==
    LET Add      == HostCall("Workbooks.Add", <<>>)
        SaveAs   == HostCall("SaveAs", <<file>>)
        Open     == HostCall("Workbooks.Open", <<file>>)
        Item     == HostCall("Workbooks", <<file>>)
        Dispatch == HostCall("EnsureDispatch", <<>>)
    IN  IF _wb_open = 1 THEN Outcome(Raise("Exception"), <<>>)
        ELSE IF ~isfile
        THEN IF head = 1
             THEN Outcome(Raise("com_error"), <<Add>>)
             ELSE IF head = 2
             THEN [Outcome(Raise("com_error"), <<Add, SaveAs>>)
                      EXCEPT !.wb = PyWorkbook, !.book = NewBook,
                             !.excel = [excel EXCEPT !.Running = TRUE]]
             ELSE IF head = 3
             THEN [Outcome(Raise("com_error"), <<Add, SaveAs, Open>>)
                      EXCEPT !.wb = PyWorkbook, !.book = NewBook,
                             !.excel = [excel EXCEPT !.Running = TRUE]]
             ELSE open_tail(NewBook, <<Add, SaveAs, Open>>, tail)
        ELSE IF head = 1        \* the workbook is among the open ones of the host
        THEN open_tail(FileBook, <<Item>>, tail)
        ELSE IF head = 2        \* it is not, and is opened
        THEN open_tail(FileBook, <<Item, Open>>, tail)
        ELSE IF head = 3        \* opened on the second attempt, by a fresh dispatch
        THEN open_tail(FileBook, <<Item, Open, Dispatch, Open>>, tail)
        ELSE IF head = 4        \* shutil.rmtree raises in the handler
        THEN Outcome(Raise("OSError"), <<Item, Open>>)
        ELSE [Outcome(Raise("Exception"), <<Item, Open, Dispatch, Open>>)
                 EXCEPT !.wb = PyNone, !.book = NoBook]

(* ExcelSpreadSheet.close *)

close(save_changes) ==
    LET Quit == HostCall("Quit", <<>>)
    IN  IF _wb_open = 1
        THEN [Same EXCEPT !.ret = Return(PyNone),
                          !.calls = <<HostCall("Close", <<save_changes>>), Quit>>,
                          !.book = NoBook, !.excel = [excel EXCEPT !.Running = FALSE],
                          !.sheetnames = <<>>, !.wb_open = 0, !.wb = PyNone]
        ELSE [Same EXCEPT !.ret = Return(PyNone), !.calls = <<Quit>>,
                          !.book = NoBook, !.excel = [excel EXCEPT !.Running = FALSE],
                          !.sheetnames = <<>>, !.wb_open = 0, !.wb = PyNone]

(* ExcelSpreadSheet.write_cell, for data that is a scalar, a DataFrame or a *)
(* set (the tuple, list and Series of lines 537-542 are turned into one     *)
(* string and written the same way)                                         *)

write_cell(data, sheet, row, col, cellref) ==
    LET ws   == _validate_worksheet(sheet)
        ref  == _validate_cellref(cellref, row, col)
        c    == _validate_column(ref.val[2])
        r    == _validate_row(ref.val[1])
        n    == SheetIndex(book, sheet)
        log1 == <<HostCall("Sheets", <<sheet>>)>>
        log2 == log1 \o <<HostCall("ProtectContents", <<>>)>>
        log3 == log2 \o <<HostCall("Cells", <<r.val[1], c.val[1]>>)>>
        log4 == log3 \o <<HostCall("Value=", <<data>>)>>
    IN  IF data.t \in {"DataFrame", "set"} THEN Outcome(Raise("ValueError"), <<>>)
        ELSE IF _validate_workbook.kind = "raise" THEN Outcome(_validate_workbook, <<>>)
        ELSE IF ws.kind = "raise" THEN Outcome(ws, <<>>)
        ELSE IF ref.kind = "raise" THEN Outcome(ref, <<>>)
        ELSE IF c.kind = "raise" THEN Outcome(c, <<>>)
        ELSE IF r.kind = "raise" THEN Outcome(r, <<>>)
        ELSE IF n = 0 THEN Outcome(Raise("com_error"), log1)
        ELSE IF book[n].ProtectContents
        THEN Outcome(RaiseError("InvalidSheetError"), log2 \o NameCall(n))
        ELSE IF ~IsCell(r.val[1], c.val[1]) THEN Outcome(Raise("com_error"), log3)
        ELSE [Outcome(Return(PyNone), log4) EXCEPT
                 !.book[n].Cells = RangeAssign(@, r.val[1].i, c.val[1].i,
                                               r.val[1].i, c.val[1].i, <<<<data>>>>)]

(* ExcelSpreadSheet.write_row *)

write_row(data, sheet, cellref, startrow, startcol, endcol) ==
    LET ws    == _validate_worksheet(sheet)
        ref   == _validate_cellref(cellref, startrow, startcol)
        row   == ref.val[1]
        sc    == _validate_column(ref.val[2])
        col   == sc.val[1]
        clean == _cleanse_data(data)
        ec    == _validate_column(endcol)
        len   == Len(data.s)
        end   == IF endcol.t # "None" THEN ec.val[1].i + (col.i - 1)
                                      ELSE len + (col.i - 1)
        warn  == endcol.t # "None" /\ end # len
        \* data_series = pd.Series(data) is taken at line 584, before
        \* data = data[:end] at line 595, and it is data_series.values that is
        \* written
        data_series == data.s
        n     == SheetIndex(book, sheet)
        log1  == <<HostCall("Sheets", <<sheet>>)>>
        log2  == log1 \o <<HostCall("ProtectContents", <<>>)>>
        log3  == log2 \o <<HostCall("Cells", <<row, col>>)>>
        log4  == log3 \o <<HostCall("Cells", <<row, PyInt(end)>>)>>
        log5  == log4 \o <<HostCall("Range", <<>>), HostCall("Value=", <<PyList(data_series)>>)>>
        host  == IF n = 0 THEN Outcome(Raise("com_error"), log1)
                 ELSE IF book[n].ProtectContents
                 THEN Outcome(RaiseError("InvalidSheetError"), log2 \o NameCall(n))
                 ELSE IF ~IsCell(row, col) THEN Outcome(Raise("com_error"), log3)
                 ELSE IF ~IsCell(row, PyInt(end)) THEN Outcome(Raise("com_error"), log4)
                 ELSE [Outcome(Return(PyNone), log5) EXCEPT
                          !.book[n].Cells = RangeAssign(@, row.i, col.i, row.i, end,
                                                        <<data_series>>)]
    IN  IF _validate_workbook.kind = "raise" THEN Outcome(_validate_workbook, <<>>)
        ELSE IF ws.kind = "raise" THEN Outcome(ws, <<>>)
        ELSE IF ref.kind = "raise" THEN Outcome(ref, <<>>)
        ELSE IF sc.kind = "raise" THEN Outcome(sc, <<>>)
        ELSE IF data.t \notin {"Series", "list", "tuple"}
        THEN Outcome(Raise("ValueError"), <<>>)
        ELSE IF clean.kind = "raise" THEN Outcome(clean, <<>>)
        ELSE IF endcol.t # "None" /\ ec.kind = "raise" THEN Outcome(ec, <<>>)
        ELSE IF col.t = "None" THEN Outcome(Raise("TypeError"), <<>>)  \* None - 1
        ELSE [host EXCEPT !.warned = warn]

(* ExcelSpreadSheet.write_dataframe *)

write_dataframe(data, sheet, cellref, startrow, startcol, headers) ==
    LET ws     == _validate_worksheet(sheet)
        ref    == _validate_cellref(cellref, startrow, startcol)
        row    == ref.val[1]
        sc     == _validate_column(ref.val[2])
        col    == sc.val[1]
        nrows  == data.s[1]
        ncols  == data.s[2]
        right  == PyInt(ncols + (col.i - 1))
        manual == [excel EXCEPT !.Calculation = "xlCalculationManual"]
        n      == SheetIndex(book, sheet)
        log1   == <<HostCall("Calculation=", <<>>), HostCall("Sheets", <<sheet>>)>>
        log2   == log1 \o <<HostCall("ProtectContents", <<>>)>>
        log3   == log2 \o <<HostCall("Cells", <<row, col>>)>>
        log4   == log3 \o <<HostCall("Cells", <<row, right>>), HostCall("Range", <<>>),
                            HostCall("Value=", <<PyList(DataFrameColumns(data))>>)>>
        body   == <<HostCall("Cells", <<PyInt(row.i + 1), col>>),
                    HostCall("Cells", <<PyInt(nrows + row.i), right>>),
                    HostCall("Range", <<>>), HostCall("Value=", <<data>>)>>
        plain  == <<HostCall("Cells", <<PyInt(nrows + (row.i - 1)), right>>),
                    HostCall("Range", <<>>), HostCall("Value=", <<data>>)>>
        finish == <<HostCall("Calculate", <<>>), HostCall("Calculation=", <<>>)>>
        stop(r, log) == [Outcome(r, log) EXCEPT !.excel = manual]
    IN  IF _validate_workbook.kind = "raise" THEN Outcome(_validate_workbook, <<>>)
        ELSE IF ws.kind = "raise" THEN Outcome(ws, <<>>)
        ELSE IF ref.kind = "raise" THEN Outcome(ref, <<>>)
        ELSE IF data.t # "DataFrame" THEN Outcome(Raise("ValueError"), <<>>)
        ELSE IF sc.kind = "raise" THEN Outcome(sc, <<>>)
        ELSE IF n = 0 THEN stop(Raise("com_error"), log1)
        ELSE IF book[n].ProtectContents
        THEN stop(RaiseError("InvalidSheetError"), log2 \o NameCall(n))
        ELSE IF ~IsCell(row, col) THEN stop(Raise("com_error"), log3)
        ELSE IF headers
        THEN [Outcome(Return(PyNone), log4 \o body \o finish) EXCEPT
                 !.excel = [excel EXCEPT !.Calculation = "xlCalculationAutomatic"],
                 !.book[n].Cells =
                     RangeAssign(RangeAssign(@, row.i, col.i, row.i, right.i,
                                             <<DataFrameColumns(data)>>),
                                 row.i + 1, col.i, nrows + row.i, right.i,
                                 DataFrameValues(data))]
        ELSE [Outcome(Return(PyNone), log3 \o plain \o finish) EXCEPT
                 !.excel = [excel EXCEPT !.Calculation = "xlCalculationAutomatic"],
                 !.book[n].Cells =
                     RangeAssign(@, row.i, col.i, nrows + (row.i - 1), right.i,
                                 DataFrameValues(data))]

(* ExcelSpreadSheet.read_cell *)

read_cell(sheet, cellref, col, row) ==
    LET ws   == _validate_worksheet(sheet)
        ref  == _validate_cellref(cellref, row, col)
        c    == _validate_column(ref.val[2])
        r    == _validate_row(ref.val[1])
        n    == SheetIndex(book, sheet)
        log1 == <<HostCall("Sheets", <<sheet>>)>>
        log2 == log1 \o <<HostCall("Cells", <<r.val[1], c.val[1]>>)>>
        log3 == log2 \o <<HostCall("Cells", <<r.val[1], c.val[1]>>),
                          HostCall("Range", <<>>), HostCall("Value", <<>>)>>
    IN  IF _validate_workbook.kind = "raise" THEN Outcome(_validate_workbook, <<>>)
        ELSE IF ws.kind = "raise" THEN Outcome(ws, <<>>)
        ELSE IF ref.kind = "raise" THEN Outcome(ref, <<>>)
        ELSE IF c.kind = "raise" THEN Outcome(c, <<>>)
        ELSE IF r.kind = "raise" THEN Outcome(r, <<>>)
        ELSE IF n = 0 THEN Outcome(Raise("com_error"), log1)
        ELSE IF ~IsCell(r.val[1], c.val[1]) THEN Outcome(Raise("com_error"), log2)
        ELSE Outcome(Return(CellValue(book[n].Cells, r.val[1].i, c.val[1].i)), log3)

\* sheet.Range(text) exists for a text of the form <col><row>:<col><row>
\* with rows counted from 1, or <col>:<col>
IsRange(text) ==
    LET m == range_regex_match(text.s)
    IN  /\ m.m
        /\ text.s[Len(text.s)] # 10
        /\ m.cols_only \/ (DigitsValue(m.row_1, 0) >= 1 /\ DigitsValue(m.row_2, 0) >= 1)

\* the DataFrame made of the values of a range of the sheet
PyDataFrameOf(text, header) ==
    [t |-> "DataFrame", i |-> IF header THEN 1 ELSE 0, s |-> text.s]

(* ExcelSpreadSheet.read_dataframe *)

read_dataframe(sheet, header, excel_range, startrow, endrow, startcol, endcol) ==
    LET ws   == _validate_worksheet(sheet)
        rng  == _validate_range(excel_range, startrow, endrow, startcol, endcol)
        n    == SheetIndex(book, sheet)
        log1 == <<HostCall("Sheets", <<sheet>>)>>
        log2 == log1 \o <<HostCall("Range", <<rng.val[1]>>)>>
    IN  IF _validate_workbook.kind = "raise" THEN Outcome(_validate_workbook, <<>>)
        ELSE IF ws.kind = "raise" THEN Outcome(ws, <<>>)
        ELSE IF rng.kind = "raise" THEN Outcome(rng, <<>>)
        ELSE IF n = 0 THEN Outcome(Raise("com_error"), log1)
        ELSE IF ~IsRange(rng.val[1]) THEN Outcome(Raise("com_error"), log2)
        ELSE Outcome(Return(PyDataFrameOf(rng.val[1], header)),
                     log2 \o <<HostCall("Value", <<>>)>>)

\* the keys of self.format_args["Format"] and of self.format_args["Condition"]
FormatKeys ==
    {"interior_colour", "number_format", "bold", "font_colour", "font_size",
     "font_name", "orientation", "underline", "merge", "wrap_text", "h_align",
     "v_align", "border_left", "border_right", "border_top", "border_bot",
     "border_inside_h", "border_inside_v"}

ConditionKeys == <<"logic", "value", "value2">>

\* the keys of condition_dict and the string keys of logic_dict
ConditionNames ==
    {"above_average", "is_blank", "cell_value", "color_scale", "data_bar", "is_error",
     "expression", "icon_set", "no_blanks", "no_errors", "text", "time_period",
     "top_ten", "unique"}

LogicNames ==
    {"between", "equal_to", "greater_than", "greater_equal", "less_than",
     "less_equal", "not_between", "not_equal"}

\* a str of one of these vocabularies, kept as a string of the model
PyWord(w) == [t |-> "word", i |-> 0, s |-> w]

Has(keys, k) == \E j \in 1..Len(keys) : keys[j] = k

\* exec("<range>.<property> = kwargs[key]") for each key of kwargs that is a
\* key of format_args["Format"], in order
RECURSIVE FormatCalls(_)
FormatCalls(keys) ==
    IF keys = <<>> THEN <<>>
    ELSE (IF Head(keys) \in FormatKeys
          THEN <<HostCall("Format", <<PyWord(Head(keys))>>)>> ELSE <<>>)
         \o FormatCalls(Tail(keys))

(* ExcelSpreadSheet.format_range.  kwargs holds the keys given.  A key that *)
(* is not known is warned about and deleted from kwargs inside the loop     *)
(* over kwargs.keys(): the loop then raises RuntimeError (dictionary        *)
(* changed size during iteration).                                          *)

format_range(sheet, excel_range, startrow, endrow, startcol, endcol, kwargs) ==
    LET ws   == _validate_worksheet(sheet)
        rng  == _validate_range(excel_range, startrow, endrow, startcol, endcol)
        n    == SheetIndex(book, sheet)
        log1 == <<HostCall("Sheets", <<sheet>>)>>
        log2 == log1 \o <<HostCall("Range", <<rng.val[1]>>)>>
    IN  IF \E j \in 1..Len(kwargs.s) : kwargs.s[j] \notin FormatKeys
        THEN [Outcome(Raise("RuntimeError"), <<>>) EXCEPT !.warned = TRUE]
        ELSE IF _validate_workbook.kind = "raise" THEN Outcome(_validate_workbook, <<>>)
        ELSE IF ws.kind = "raise" THEN Outcome(ws, <<>>)
        ELSE IF rng.kind = "raise" THEN Outcome(rng, <<>>)
        ELSE IF n = 0 THEN Outcome(Raise("com_error"), log1)
        ELSE IF ~IsRange(rng.val[1]) THEN Outcome(Raise("com_error"), log2)
        ELSE Outcome(Return(PyNone), log2 \o FormatCalls(kwargs.s))

(* ExcelSpreadSheet.conditional_formatting.  logic is kwargs["logic"] when  *)
(* the key is given.  For a key of format_args["Condition"] that is not     *)
(* given, ast.literal_eval(key) raises ValueError (not the NameError the    *)
(* code catches).                                                           *)

conditional_formatting(sheet, condition, excel_range, startrow, endrow, startcol, endcol, logic, kwargs) ==
    LET ws   == _validate_worksheet(sheet)
        rng  == _validate_range(excel_range, startrow, endrow, startcol, endcol)
        n    == SheetIndex(book, sheet)
        log1 == <<HostCall("Sheets", <<sheet>>)>>
        log2 == log1 \o <<HostCall("Range", <<rng.val[1]>>)>>
        log3 == log2 \o <<HostCall("FormatConditions.Add", <<condition, logic>>)>>
    IN  IF \E j \in 1..Len(kwargs.s) :
              kwargs.s[j] \notin FormatKeys /\ ~Has(ConditionKeys, kwargs.s[j])
        THEN [Outcome(Raise("RuntimeError"), <<>>) EXCEPT !.warned = TRUE]
        ELSE IF \E j \in 1..Len(ConditionKeys) : ~Has(kwargs.s, ConditionKeys[j])
        THEN Outcome(Raise("ValueError"), <<>>)
        ELSE IF _validate_workbook.kind = "raise" THEN Outcome(_validate_workbook, <<>>)
        ELSE IF ws.kind = "raise" THEN Outcome(ws, <<>>)
        ELSE IF rng.kind = "raise" THEN Outcome(rng, <<>>)
        ELSE IF logic.s \notin LogicNames THEN Outcome(Raise("ValueError"), <<>>)
        ELSE IF condition.s \notin ConditionNames THEN Outcome(Raise("ValueError"), <<>>)
        ELSE IF n = 0 THEN Outcome(Raise("com_error"), log1)
        ELSE IF ~IsRange(rng.val[1]) THEN Outcome(Raise("com_error"), log2)
        ELSE Outcome(Return(PyNone), log3 \o FormatCalls(kwargs.s))

(* ExcelSpreadSheet.delete_sheet.  The host does not delete the only sheet  *)
(* of a workbook.                                                           *)

delete_sheet(sheet) ==
    LET ws   == _validate_worksheet(sheet)
        n    == SheetIndex(book, sheet)
        left == [k \in 1..(Len(book) - 1) |-> IF k < n THEN book[k] ELSE book[k + 1]]
        log1 == <<HostCall("Sheets", <<sheet>>)>>
        log2 == log1 \o <<HostCall("Delete", <<>>)>>
    IN  IF _validate_workbook.kind = "raise" THEN Outcome(_validate_workbook, <<>>)
        ELSE IF ws.kind = "raise" THEN Outcome(ws, <<>>)
        ELSE IF n = 0 THEN Outcome(Raise("com_error"), log1)
        ELSE IF Len(book) = 1 THEN Outcome(Raise("com_error"), log2)
        ELSE [Outcome(Return(PyNone),
                      log2 \o <<HostCall("Sheets", <<>>)>> \o NameCalls(Len(left)))
                 EXCEPT !.book = left, !.sheetnames = SheetNames(left)]

(* ExcelSpreadSheet.set_sheet_visibility *)

Lower(q) == [k \in 1..Len(q) |-> IF IsUpper(q[k]) THEN q[k] + 32 ELSE q[k]]

\* visibilty_values = {"visible": -1, "hidden": 1, "very hidden": 2}
visibilty_values ==
    <<[key |-> <<118, 105, 115, 105, 98, 108, 101>>, value |-> -1],
      [key |-> <<104, 105, 100, 100, 101, 110>>, value |-> 1],
      [key |-> <<118, 101, 114, 121, 32, 104, 105, 100, 100, 101, 110>>, value |-> 2]>>

InVisibilityValues(q) == \E j \in 1..Len(visibilty_values) : visibilty_values[j].key = q

VisibilityValue(q) ==
    visibilty_values[CHOOSE j \in 1..Len(visibilty_values) : visibilty_values[j].key = q].value

\* [visibilty_values.values()] is a list of one element, the view of the
\* values, which is equal to no int
InValuesList(n) == FALSE

\* The host takes an integer for Visible, and raises com_error otherwise.
set_sheet_visibility(sheet, visibility) ==
    LET ws     == _validate_worksheet(sheet)
        n      == SheetIndex(book, sheet)
        mapped == IF visibility.t = "str" /\ InVisibilityValues(visibility.s)
                  THEN PyInt(VisibilityValue(visibility.s)) ELSE visibility
        log1   == <<HostCall("Sheets", <<sheet>>)>>
        log2   == log1 \o <<HostCall("Visible=", <<mapped>>)>>
    IN  IF _validate_workbook.kind = "raise" THEN Outcome(_validate_workbook, <<>>)
        ELSE IF ws.kind = "raise" THEN Outcome(ws, <<>>)
        ELSE IF \/ visibility.t = "str" /\ ~InVisibilityValues(Lower(visibility.s))
                \/ visibility.t = "int" /\ ~InValuesList(visibility.i)
        THEN Outcome(Raise("ValueError"), <<>>)
        ELSE IF n = 0 THEN Outcome(Raise("com_error"), log1)
        ELSE IF mapped.t # "int" THEN Outcome(Raise("com_error"), log2)
        ELSE [Outcome(Return(PyNone), log2) EXCEPT !.book[n].Visible = mapped]

(* ExcelSpreadSheet.protect_sheet and unprotect_sheet, without a password   *)
(* and with contents = True                                                 *)

protect_sheet(sheet, enable_selection) ==
    LET ws   == _validate_worksheet(sheet)
        n    == SheetIndex(book, sheet)
        log1 == <<HostCall("Sheets", <<sheet>>)>>
        log2 == log1 \o <<HostCall("ProtectContents", <<>>)>>
        sel  == IF enable_selection THEN <<>>
                ELSE <<HostCall("Sheets", <<sheet>>), HostCall("EnableSelection=", <<>>)>>
        log3 == log2 \o sel \o <<HostCall("Sheets", <<sheet>>), HostCall("Protect", <<>>)>>
    IN  IF _validate_workbook.kind = "raise" THEN Outcome(_validate_workbook, <<>>)
        ELSE IF ws.kind = "raise" THEN Outcome(ws, <<>>)
        ELSE IF n = 0 THEN Outcome(Raise("com_error"), log1)
        ELSE IF book[n].ProtectContents
        THEN [Outcome(Return(PyNone), log2) EXCEPT !.warned = TRUE]
        ELSE [Outcome(Return(PyNone), log3) EXCEPT
                 !.book[n].ProtectContents = TRUE,
                 !.book[n].EnableSelection =
                     IF enable_selection THEN @ ELSE "xlNoSelection"]

unprotect_sheet(sheet) ==
    LET ws   == _validate_worksheet(sheet)
        n    == SheetIndex(book, sheet)
        log1 == <<HostCall("Sheets", <<sheet>>)>>
        log2 == log1 \o <<HostCall("ProtectContents", <<>>)>>
        log3 == log2 \o <<HostCall("Sheets", <<sheet>>), HostCall("Unprotect", <<>>)>>
    IN  IF _validate_workbook.kind = "raise" THEN Outcome(_validate_workbook, <<>>)
        ELSE IF ws.kind = "raise" THEN Outcome(ws, <<>>)
        ELSE IF n = 0 THEN Outcome(Raise("com_error"), log1)
        ELSE IF ~book[n].ProtectContents
        THEN [Outcome(Return(PyNone), log2) EXCEPT !.warned = TRUE]
        ELSE [Outcome(Return(PyNone), log3) EXCEPT !.book[n].ProtectContents = FALSE]

(* protect_workbook, unprotect_workbook, get_sheetnames, refresh_all,       *)
(* save_xlsx, save_pdf.  The protection of the workbook's structure and the *)
(* files written are state of the host that no operation reads back; the    *)
(* calls are recorded.                                                      *)

protect_workbook ==
    IF _validate_workbook.kind = "raise" THEN Outcome(_validate_workbook, <<>>)
    ELSE Outcome(Return(PyNone), <<HostCall("Protect", <<>>)>>)

unprotect_workbook ==
    IF _validate_workbook.kind = "raise" THEN Outcome(_validate_workbook, <<>>)
    ELSE Outcome(Return(PyNone), <<HostCall("Unprotect", <<>>)>>)

get_sheetnames ==
    IF _validate_workbook.kind = "raise" THEN Outcome(_validate_workbook, <<>>)
    ELSE Outcome(Return(PyList(sheetnames)), <<>>)

\* The workbooks of the inputs have no pivot tables.  found tells whether
\* the host object has an attribute of the name WorkSheets (the host's
\* property is spelt Worksheets).
refresh_all(found) ==
    LET log1 == <<HostCall("RefreshAll", <<>>), HostCall("WorkSheets", <<>>)>>
    IN  IF _validate_workbook.kind = "raise" THEN Outcome(_validate_workbook, <<>>)
        ELSE IF ~found THEN Outcome(Raise("AttributeError"), log1)
        ELSE Outcome(Return(PyNone),
                     log1 \o [k \in 1..Len(book) |-> HostCall("PivotTables", <<PyInt(k)>>)])

save_xlsx(outfile) ==
    IF _validate_workbook.kind = "raise" THEN Outcome(_validate_workbook, <<>>)
    ELSE Outcome(Return(PyNone),
                 <<HostCall("SaveAs", <<outfile>>), HostCall("Saved=", <<>>)>>)

\* outfile.endswith(".pdf")
EndsWithPdf(q) == Len(q) >= 4 /\ SubSeq(q, Len(q) - 3, Len(q)) = <<46, 112, 100, 102>>

save_pdf(outfile, sheet) ==
    LET ws   == IF sheet.t = "None" THEN Return(PyNone) ELSE _validate_worksheet(sheet)
        n    == SheetIndex(book, sheet)
        log1 == <<HostCall("Sheets", <<sheet>>)>>
    IN  IF _validate_workbook.kind = "raise" THEN Outcome(_validate_workbook, <<>>)
        ELSE IF ws.kind = "raise" THEN Outcome(ws, <<>>)
        ELSE IF ~EndsWithPdf(outfile.s) THEN Outcome(Raise("ValueError"), <<>>)
        ELSE IF sheet.t = "None"
        THEN Outcome(Return(PyNone), <<HostCall("ExportAsFixedFormat", <<outfile>>)>>)
        ELSE IF n = 0 THEN Outcome(Raise("com_error"), log1)
        ELSE Outcome(Return(PyNone),
                     log1 \o <<HostCall("ExportAsFixedFormat", <<outfile>>)>>)

(* ExcelSpreadSheet.reset_cursor, with the default cell "A1".  Which sheet  *)
(* is active is state of the host that no operation reads back.             *)

RECURSIVE CursorCalls(_, _)
CursorCalls(b, k) ==
    IF k > Len(b) THEN <<>>
    ELSE <<HostCall("Visible", <<PyInt(k)>>)>>
         \o (IF b[k].Visible = PyInt(-1)
             THEN <<HostCall("EnableSelection", <<PyInt(k)>>)>> ELSE <<>>)
         \o (IF b[k].Visible = PyInt(-1) /\ b[k].EnableSelection = "xlNoRestrictions"
             THEN <<HostCall("Activate", <<PyInt(k)>>), HostCall("Range.Select", <<PyInt(k)>>),
                    HostCall("Range.Activate", <<PyInt(k)>>), HostCall("ScrollRow=", <<>>),
                    HostCall("ScrollColumn=", <<>>)>>
             ELSE <<>>)
         \o CursorCalls(b, k + 1)

reset_cursor(sheet) ==
    LET ws   == _validate_worksheet(sheet)
        n    == SheetIndex(book, sheet)
        log1 == <<HostCall("EnableEvents=", <<PyBool(TRUE)>>), HostCall("Sheets", <<>>)>>
                    \o CursorCalls(book, 1) \o <<HostCall("Sheets", <<sheet>>)>>
        log2 == log1 \o <<HostCall("Activate", <<sheet>>),
                          HostCall("EnableEvents=", <<PyBool(FALSE)>>)>>
    IN  IF _validate_workbook.kind = "raise" THEN Outcome(_validate_workbook, <<>>)
        ELSE IF ws.kind = "raise" THEN Outcome(ws, <<>>)
        ELSE IF n = 0
        THEN [Outcome(Raise("com_error"), log1) EXCEPT
                 !.excel = [excel EXCEPT !.EnableEvents = TRUE]]
        ELSE [Outcome(Return(PyNone), log2) EXCEPT
                 !.excel = [excel EXCEPT !.EnableEvents = FALSE]]

----------------------------------------------------------------------------
(* The state machine of one ExcelSpreadSheet object: from construction, a   *)
(* caller makes one call after the other.  pc is "idle" between calls and   *)
(* "done" when a call has returned or raised; fn, args, ret, calls and      *)
(* warned then describe that call.                                          *)

\* the arguments the caller draws from: the first sheet by name and by
\* index, a name and an index the workbook does not have, and index 0
SheetArgs == {Sheet1, PyInt(1), PyStr(<<88>>), PyInt(3), PyInt(0)}

\* row, col, cellref for the cell B1: (1, 2), (1, "B"), "B1", "B15", and
\* column 0, row 0, a row alone, nothing, "AA1", "B1" with a row, "B1" with
\* a row and a column
CellForms ==
    {<<PyInt(1), PyInt(2), PyNone>>, <<PyInt(1), PyStr(<<66>>), PyNone>>,
     <<PyNone, PyNone, PyStr(<<66, 49>>)>>, <<PyNone, PyNone, PyStr(<<66, 49, 53>>)>>,
     <<PyInt(1), PyInt(0), PyNone>>, <<PyInt(0), PyInt(2), PyNone>>,
     <<PyInt(1), PyNone, PyNone>>, <<PyNone, PyNone, PyNone>>,
     <<PyNone, PyNone, PyStr(<<65, 65, 49>>)>>, <<PyInt(1), PyNone, PyStr(<<66, 49>>)>>,
     <<PyInt(1), PyInt(2), PyStr(<<66, 49>>)>>}

\* excel_range, startrow, endrow, startcol, endcol: "A1:B2", "B2:A1", "A:B",
\* "A1", "A0:B1", rows 1-2 of columns 1-2, column 0, a row alone, nothing,
\* a text with coordinates
RangeForms ==
    {<<PyStr(<<65, 49, 58, 66, 50>>), PyNone, PyNone, PyNone, PyNone>>,
     <<PyStr(<<66, 50, 58, 65, 49>>), PyNone, PyNone, PyNone, PyNone>>,
     <<PyStr(<<65, 58, 66>>), PyNone, PyNone, PyNone, PyNone>>,
     <<PyStr(<<65, 49>>), PyNone, PyNone, PyNone, PyNone>>,
     <<PyStr(<<65, 48, 58, 66, 49>>), PyNone, PyNone, PyNone, PyNone>>,
     <<PyNone, PyInt(1), PyInt(2), PyInt(1), PyInt(2)>>,
     <<PyNone, PyInt(1), PyInt(1), PyInt(0), PyInt(1)>>,
     <<PyNone, PyInt(1), PyNone, PyNone, PyNone>>,
     <<PyNone, PyNone, PyNone, PyNone, PyNone>>,
     <<PyStr(<<65, 49, 58, 66, 50>>), PyInt(1), PyInt(2), PyInt(1), PyInt(2)>>}

MaxData == 2       \* length of the tuples, lists and Series written as a row

RowData(k) == [j \in 1..k |-> PyInt(7)]

\* the file opened, "a.xlsx", and the files saved to, "a.xlsx" and "a.pdf"
BookFile == PyStr(<<97, 46, 120, 108, 115, 120>>)

OutFiles == {BookFile, PyStr(<<97, 46, 112, 100, 102>>)}

\* write_cell: 7 to every form of the cell on the first sheet, a DataFrame
\* and a set, and the other sheets
WriteCellArgs ==
    {<<PyInt(7), sheet, x[1], x[2], x[3]>> : sheet \in {Sheet1, PyInt(1)}, x \in CellForms}
    \cup {<<data, PyInt(1), PyInt(1), PyInt(2), PyNone>> :
             data \in {PyDataFrame(1, 1), PySet(<<PyInt(7)>>)}}
    \cup {<<PyInt(7), sheet, PyInt(1), PyInt(2), PyNone>> : sheet \in SheetArgs}

\* write_row: a tuple from column 2 on (by coordinates; by "B1"; a row
\* alone; column 0) to every endcol, then the other kinds of data and a
\* sheet that does not exist
WriteRowArgs ==
    {<<PyTuple(RowData(MaxData)), PyInt(1), x[1], x[2], x[3], endcol>> :
        x \in {<<PyNone, PyInt(1), PyInt(2)>>, <<PyStr(<<66, 49>>), PyNone, PyNone>>,
               <<PyNone, PyInt(1), PyNone>>, <<PyNone, PyInt(1), PyInt(0)>>},
        endcol \in {PyNone} \cup {PyInt(k) : k \in 1..(MaxData + 1)}}
    \cup {<<data, PyInt(1), PyNone, PyInt(1), PyInt(2), endcol>> :
             data \in {PySeries(RowData(MaxData)), PyList(RowData(MaxData)), PyInt(7)},
             endcol \in {PyNone, PyInt(2)}}
    \cup {<<PyTuple(RowData(MaxData)), PyStr(<<88>>), PyNone, PyInt(1), PyInt(2), PyNone>>}

\* write_dataframe: a DataFrame of one value from B1 on, with and without
\* headers, then data that is no DataFrame and a sheet that does not exist
WriteDataframeArgs ==
    {<<PyDataFrame(1, 1), PyInt(1), x[1], x[2], x[3], PyBool(headers)>> :
        x \in {<<PyNone, PyInt(1), PyInt(2)>>, <<PyStr(<<66, 49>>), PyNone, PyNone>>,
               <<PyNone, PyInt(1), PyInt(0)>>, <<PyNone, PyInt(1), PyNone>>,
               <<PyNone, PyNone, PyNone>>},
        headers \in BOOLEAN}
    \cup {<<PyInt(7), PyInt(1), PyNone, PyInt(1), PyInt(2), PyBool(FALSE)>>,
          <<PyDataFrame(1, 1), PyStr(<<88>>), PyNone, PyInt(1), PyInt(2), PyBool(FALSE)>>}

\* read_cell: sheet, cellref, col, row
ReadCellArgs ==
    {<<PyInt(1), x[3], x[2], x[1]>> : x \in CellForms}
    \cup {<<sheet, PyNone, PyInt(2), PyInt(1)>> : sheet \in SheetArgs}

\* read_dataframe: sheet, header, and the range
ReadDataframeArgs ==
    {<<PyInt(1), PyBool(TRUE), x[1], x[2], x[3], x[4], x[5]>> : x \in RangeForms}
    \cup {<<sheet, PyBool(FALSE), PyStr(<<65, 49, 58, 66, 50>>), PyNone, PyNone, PyNone,
            PyNone>> : sheet \in {PyInt(1), PyStr(<<88>>), PyInt(0)}}

\* format_range: sheet, the range, and the keys of kwargs
FormatRangeArgs ==
    {<<PyInt(1), x[1], x[2], x[3], x[4], x[5], PyKwargs(<<"bold">>)>> : x \in RangeForms}
    \cup {<<sheet, PyStr(<<65, 49, 58, 66, 50>>), PyNone, PyNone, PyNone, PyNone,
            PyKwargs(keys)>> :
             sheet \in {PyInt(1), PyStr(<<88>>), PyInt(0)},
             keys \in {<<>>, <<"bold", "colour">>}}

\* conditional_formatting: sheet, condition, the range, logic, the keys
ConditionalFormattingArgs ==
    {<<PyInt(1), PyWord("cell_value"), x[1], x[2], x[3], x[4], x[5], PyWord("equal_to"),
       PyKwargs(<<"logic", "value", "value2", "bold">>)>> : x \in RangeForms}
    \cup {<<sheet, PyWord(condition), PyStr(<<65, 49, 58, 66, 50>>), PyNone, PyNone, PyNone,
            PyNone, PyWord(logic), PyKwargs(<<"logic", "value", "value2">>)>> :
             sheet \in {PyInt(1), PyStr(<<88>>), PyInt(0)},
             condition \in {"cell_value", "no_such"}, logic \in {"equal_to", "no_such"}}
    \cup {<<PyInt(1), PyWord("cell_value"), PyStr(<<65, 49, 58, 66, 50>>), PyNone, PyNone,
            PyNone, PyNone, PyWord("equal_to"), PyKwargs(keys)>> :
             keys \in {<<>>, <<"logic", "colour">>}}

\* "visible", "hidden", "very hidden", "Hidden", "shown", the integers, None
Visibilities ==
    {PyStr(<<118, 105, 115, 105, 98, 108, 101>>), PyStr(<<104, 105, 100, 100, 101, 110>>),
     PyStr(<<118, 101, 114, 121, 32, 104, 105, 100, 100, 101, 110>>),
     PyStr(<<72, 105, 100, 100, 101, 110>>), PyStr(<<115, 104, 111, 119, 110>>),
     PyInt(-1), PyInt(0), PyInt(1), PyInt(2), PyNone}

InitBook ==
    /\ pc = "idle"
    /\ fn = ""
    /\ args = <<>>
    /\ ret = NoRet
    /\ ExcelSpreadSheet_init

\* the call f(a) is made and has the effect e
Perform(f, a, e) ==
    /\ pc = "idle"
    /\ pc' = "done"
    /\ fn' = f
    /\ args' = a
    /\ ret' = e.ret
    /\ calls' = e.calls
    /\ warned' = e.warned
    /\ wb' = e.wb
    /\ _wb_open' = e.wb_open
    /\ sheetnames' = e.sheetnames
    /\ excel' = e.excel
    /\ book' = e.book

\* the caller has taken the outcome of the call and goes on
Continue ==
    /\ pc = "done"
    /\ pc' = "idle"
    /\ fn' = ""
    /\ args' = <<>>
    /\ ret' = NoRet
    /\ calls' = <<>>
    /\ warned' = FALSE
    /\ UNCHANGED <<wb, _wb_open, sheetnames, excel, book>>

Call_open ==
    \E isfile \in BOOLEAN, head \in 1..5, tail \in 0..9 :
        Perform("open", <<BookFile>>, open(BookFile, isfile, head, tail))

Call_close ==
    \E save_changes \in BOOLEAN :
        Perform("close", <<PyBool(save_changes)>>, close(PyBool(save_changes)))

Call_write_cell ==
    \E a \in WriteCellArgs :
        Perform("write_cell", a, write_cell(a[1], a[2], a[3], a[4], a[5]))

Call_write_row ==
    \E a \in WriteRowArgs :
        Perform("write_row", a, write_row(a[1], a[2], a[3], a[4], a[5], a[6]))

Call_write_dataframe ==
    \E a \in WriteDataframeArgs :
        Perform("write_dataframe", a,
                write_dataframe(a[1], a[2], a[3], a[4], a[5], a[6].i = 1))

Call_read_cell ==
    \E a \in ReadCellArgs : Perform("read_cell", a, read_cell(a[1], a[2], a[3], a[4]))

Call_read_dataframe ==
    \E a \in ReadDataframeArgs :
        Perform("read_dataframe", a,
                read_dataframe(a[1], a[2].i = 1, a[3], a[4], a[5], a[6], a[7]))

Call_format_range ==
    \E a \in FormatRangeArgs :
        Perform("format_range", a, format_range(a[1], a[2], a[3], a[4], a[5], a[6], a[7]))

Call_conditional_formatting ==
    \E a \in ConditionalFormattingArgs :
        Perform("conditional_formatting", a,
                conditional_formatting(a[1], a[2], a[3], a[4], a[5], a[6], a[7], a[8], a[9]))

Call_delete_sheet ==
    \E sheet \in {PyInt(2), PyStr(<<88>>), PyInt(3), PyInt(0)} :
        Perform("delete_sheet", <<sheet>>, delete_sheet(sheet))

Call_set_sheet_visibility ==
    \E sheet \in {PyInt(1), PyStr(<<88>>)}, visibility \in Visibilities :
        /\ sheet = PyInt(1) \/ visibility = PyInt(-1)
        /\ Perform("set_sheet_visibility", <<sheet, visibility>>,
                   set_sheet_visibility(sheet, visibility))

Call_protect_sheet ==
    \E sheet \in SheetArgs :
        Perform("protect_sheet", <<sheet, PyBool(TRUE)>>, protect_sheet(sheet, TRUE))

Call_unprotect_sheet ==
    \E sheet \in SheetArgs : Perform("unprotect_sheet", <<sheet>>, unprotect_sheet(sheet))

Call_protect_workbook == Perform("protect_workbook", <<>>, protect_workbook)

Call_unprotect_workbook == Perform("unprotect_workbook", <<>>, unprotect_workbook)

Call_get_sheetnames == Perform("get_sheetnames", <<>>, get_sheetnames)

Call_refresh_all == \E found \in BOOLEAN : Perform("refresh_all", <<>>, refresh_all(found))

Call_reset_cursor ==
    \E sheet \in {Sheet1, PyInt(1), PyStr(<<88>>)} :
        Perform("reset_cursor", <<sheet>>, reset_cursor(sheet))

Call_save_xlsx == \E outfile \in OutFiles : Perform("save_xlsx", <<outfile>>, save_xlsx(outfile))

Call_save_pdf ==
    \E outfile \in OutFiles, sheet \in {PyNone, PyInt(1), PyStr(<<88>>), PyInt(0)} :
        Perform("save_pdf", <<outfile, sheet>>, save_pdf(outfile, sheet))

NextBook ==
    \/ Continue
    \/ Call_open
    \/ Call_close
    \/ Call_write_cell
    \/ Call_write_row
    \/ Call_write_dataframe
    \/ Call_read_cell
    \/ Call_read_dataframe
    \/ Call_format_range
    \/ Call_conditional_formatting
    \/ Call_delete_sheet
    \/ Call_set_sheet_visibility
    \/ Call_protect_sheet
    \/ Call_unprotect_sheet
    \/ Call_protect_workbook
    \/ Call_unprotect_workbook
    \/ Call_get_sheetnames
    \/ Call_refresh_all
    \/ Call_reset_cursor
    \/ Call_save_xlsx
    \/ Call_save_pdf

SpecBook == InitBook /\ [][NextBook]_vars

----------------------------------------------------------------------------
(* What the claims are stated with *)

Upper(q) == [k \in 1..Len(q) |-> IF IsLower(q[k]) THEN q[k] - 32 ELSE q[k]]

AllAlpha(q) == \A k \in 1..Len(q) : IsAlpha(q[k])

AllUpper(q) == \A k \in 1..Len(q) : IsUpper(q[k])

\* The bijective base-26 value of letters, most significant first: A = 1
RECURSIVE BijectiveValue(_, _)
BijectiveValue(q, acc) ==
    IF q = <<>> THEN acc ELSE BijectiveValue(Tail(q), acc * 26 + (Head(q) - 64))

Called(f) == pc = "done" /\ fn = f

IsCol2num == pc = "done" /\ fn \in {"col2num", "ExcelSpreadSheet.col2num"}

IsNum2col == pc = "done" /\ fn \in {"num2col", "ExcelSpreadSheet.num2col"}

\* col2num of the function that was called, applied to x
SameCol2num(x) ==
    IF fn = "num2col" THEN col2num(x) ELSE ExcelSpreadSheet_col2num(x)

SameNum2col(x) ==
    IF fn = "col2num" THEN num2col(x) ELSE ExcelSpreadSheet_num2col(x)

----------------------------------------------------------------------------
\* C1: for every integer n with 1 <= n <= 18278, the letters num2col returns
\* for n are converted back to n by col2num (module functions and the
\* methods of ExcelSpreadSheet alike).
C1_IndexRoundTrip ==
    (IsNum2col /\ args[1].t = "int" /\ args[1].i \in 1..MaxColumn)
        => /\ ret.kind = "return"
           /\ SameCol2num(ret.val[1]) = Return(args[1])

C1_Witness ==
    /\ Called("num2col")
    /\ args = <<PyInt(MaxColumn)>>
    /\ ret = Return(PyStr(<<90, 90, 90>>))
    /\ col2num(ret.val[1]) = Return(PyInt(MaxColumn))

\* C2 (as claimed): for every string s of 1 to 3 letters, upper-case,
\* lower-case or mixed, num2col(col2num(s)) is s.upper().
C2_LettersRoundTrip ==
    (IsCol2num /\ args[1].t = "str" /\ Len(args[1].s) \in 1..3 /\ AllAlpha(args[1].s))
        => /\ ret.kind = "return"
           /\ SameNum2col(ret.val[1]) = Return(PyStr(Upper(args[1].s)))

\* C3: col2num returns the bijective base-26 value (A = 1 ... Z = 26) of a
\* string of upper-case letters, and num2col returns the upper-case letters
\* whose value is its argument: "A" is 1, "Z" is 26, "AA" is 27, "ZZZ" is
\* 18278, 1 is "A", 27 is "AA".
C3_BijectiveBase26 ==
    /\ (IsCol2num /\ args[1].t = "str" /\ args[1].s # <<>> /\ AllUpper(args[1].s))
          => ret = Return(PyInt(BijectiveValue(args[1].s, 0)))
    /\ (IsCol2num /\ args = <<PyStr(<<65>>)>>) => ret = Return(PyInt(1))
    /\ (IsCol2num /\ args = <<PyStr(<<90>>)>>) => ret = Return(PyInt(26))
    /\ (IsCol2num /\ args = <<PyStr(<<65, 65>>)>>) => ret = Return(PyInt(27))
    /\ (IsCol2num /\ args = <<PyStr(<<90, 90, 90>>)>>) => ret = Return(PyInt(18278))
    /\ (IsNum2col /\ args[1].t = "int" /\ args[1].i \in 1..MaxColumn)
          => /\ ret.kind = "return"
             /\ Len(ret.val[1].s) \in 1..3
             /\ AllUpper(ret.val[1].s)
             /\ BijectiveValue(ret.val[1].s, 0) = args[1].i
    /\ (IsNum2col /\ args = <<PyInt(1)>>) => ret = Return(PyStr(<<65>>))
    /\ (IsNum2col /\ args = <<PyInt(27)>>) => ret = Return(PyStr(<<65, 65>>))

C3_Witness ==
    /\ Called("col2num")
    /\ args = <<PyStr(<<90, 90, 90>>)>>
    /\ ret = Return(PyInt(18278))

\* A string col2num is claimed to reject: empty, with a character that is no
\* letter, or letters whose value lies outside 1..18278
InvalidLetters(q) ==
    \/ q = <<>>
    \/ ~AllAlpha(q)
    \/ BijectiveValue(Upper(q), 0) \notin 1..MaxColumn

\* C4 (as claimed): col2num fails, instead of returning a number, whenever
\* its string is empty, has a non-letter character or encodes a value
\* outside 1..18278.
C4_RejectsInvalidLetters ==
    (IsCol2num /\ args[1].t = "str" /\ InvalidLetters(args[1].s))
        => ret.kind = "raise"

\* C4 (amended): col2num does not validate the characters of its string: for
\* every string it returns the sum of (ord(c) - 64) * 26^position without
\* raising, so "" gives 0, "A1" gives 11 and "ZZZZ" gives 475254; it raises
\* only for an argument that is not a string (ValueError from the module
\* function, TypeError from the method).
C4_NoValidation ==
    /\ (IsCol2num /\ args[1].t = "str")
          => ret = Return(PyInt(BijectiveValue(args[1].s, 0)))
    /\ (IsCol2num /\ args = <<PyStr(<<>>)>>) => ret = Return(PyInt(0))
    /\ (IsCol2num /\ args = <<PyStr(<<65, 49>>)>>) => ret = Return(PyInt(11))
    /\ (IsCol2num /\ args = <<PyStr(<<90, 90, 90, 90>>)>>) => ret = Return(PyInt(475254))
    /\ (Called("col2num") /\ args[1].t # "str") => ret = Raise("ValueError")
    /\ (Called("ExcelSpreadSheet.col2num") /\ args[1].t # "str") => ret = Raise("TypeError")

C4_Witness ==
    /\ Called("col2num")
    /\ args = <<PyStr(<<90, 90, 90, 90>>)>>
    /\ InvalidLetters(args[1].s)
    /\ ret = Return(PyInt(475254))

\* C5 (as claimed): num2col fails, instead of returning a string, for every
\* integer n < 1 and every integer n > 18278.
C5_RejectsOutOfRange ==
    (IsNum2col /\ args[1].t = "int" /\ args[1].i \notin 1..MaxColumn)
        => ret.kind = "raise"

\* C5 (amended): num2col does not check the range of its integer: for every
\* n < 1 it returns the empty string and for every n > 18278 it returns the
\* four or more upper-case letters whose value is n (18279 gives "AAAA"),
\* without raising; it raises only for an argument that is not an integer
\* (ValueError from the module function, TypeError from the method).
C5_NoRangeCheck ==
    /\ (IsNum2col /\ args[1].t = "int" /\ args[1].i < 1)
          => ret = Return(PyStr(<<>>))
    /\ (IsNum2col /\ args[1].t = "int" /\ args[1].i > MaxColumn)
          => /\ ret.kind = "return"
             /\ Len(ret.val[1].s) >= 4
             /\ AllUpper(ret.val[1].s)
             /\ BijectiveValue(ret.val[1].s, 0) = args[1].i
    /\ (IsNum2col /\ args = <<PyInt(MaxColumn + 1)>>)
          => ret = Return(PyStr(<<65, 65, 65, 65>>))
    /\ (Called("num2col") /\ args[1].t # "int") => ret = Raise("ValueError")
    /\ (Called("ExcelSpreadSheet.num2col") /\ args[1].t # "int") => ret = Raise("TypeError")

C5_Witness ==
    /\ Called("num2col")
    /\ args = <<PyInt(MaxColumn + 2)>>
    /\ ret = Return(PyStr(<<65, 65, 65, 66>>))

----------------------------------------------------------------------------
\* C6 (as claimed): _validate_column returns None for None, and for an
\* integer or a string of at most 3 characters it either raises or returns
\* an integer within 1..18278, never a value outside those bounds.
C6_ColumnWithinBounds ==
    Called("_validate_column")
        => IF args[1].t = "None"
           THEN ret = Return(PyNone)
           ELSE (args[1].t = "int" \/ Len(args[1].s) <= 3)
                   => \/ ret.kind = "raise"
                      \/ /\ ret.val[1].t = "int"
                         /\ ret.val[1].i \in 1..MaxColumn

Supplied(x) == x.t # "None"

\* exactly a cell reference, or exactly a row and a column
ExactlyOneForm(cellref, row, col) ==
    \/ Supplied(cellref) /\ ~Supplied(row) /\ ~Supplied(col)
    \/ ~Supplied(cellref) /\ Supplied(row) /\ Supplied(col)

\* C7 (as claimed): _validate_cellref succeeds only when exactly one of
\* {cellref} or {row and col both} is supplied; every other combination of
\* present and absent arguments fails with InvalidCellRefError.
C7_ExactlyOneForm ==
    (Called("_validate_cellref") /\ ~ExactlyOneForm(args[1], args[2], args[3]))
        => ret = Raise("InvalidCellRefError")

\* the strict grammar: one letter, then one or more digits, and nothing else
StrictCellRef(q) ==
    /\ Len(q) >= 2
    /\ IsAlpha(q[1])
    /\ \A k \in 2..Len(q) : IsDigit(q[k])

\* C8 (as claimed): a cellref given to _validate_cellref is checked against
\* the strict grammar and rejected with InvalidCellRefError when it does not
\* match; for a matching cellref of letter L and digits D the result is the
\* row that is the integer value of the whole of D and the column of L (the
\* letter, or its index).
C8_StrictCellRef ==
    (Called("_validate_cellref") /\ args[1].t = "str")
        => IF StrictCellRef(args[1].s)
           THEN /\ ret.kind = "return"
                /\ ret.val[1] = PyInt(DigitsValue(Tail(args[1].s), 0))
                /\ ret.val[2] \in {PyStr(<<args[1].s[1]>>),
                                   PyInt(BijectiveValue(Upper(<<args[1].s[1]>>), 0))}
           ELSE ret = Raise("InvalidCellRefError")

FourInts == \A k \in 2..5 : args[k].t = "int"

\* four coordinates that are valid rows and columns, start <= end
ValidCoords ==
    /\ FourInts
    /\ args[2].i >= 1 /\ args[2].i <= args[3].i
    /\ args[4].i >= 1 /\ args[4].i <= args[5].i /\ args[5].i <= MaxColumn

\* C9: _validate_range with no range text and four valid coordinates
\* (startrow <= endrow, startcol <= endcol) returns num2col(startcol) +
\* startrow + ":" + num2col(endcol) + endrow; (None, 1, 3, 1, 2) gives
\* "A1:B3".
C9_CanonicalText ==
    /\ (Called("_validate_range") /\ args[1] = PyNone /\ ValidCoords)
          => ret = Return(PyStr(num2col(args[4]).val[1].s \o str(args[2].i)
                                \o <<58>>
                                \o num2col(args[5]).val[1].s \o str(args[3].i)))
    /\ (Called("_validate_range")
          /\ args = <<PyNone, PyInt(1), PyInt(3), PyInt(1), PyInt(2)>>)
          => ret = Return(PyStr(<<65, 49, 58, 66, 51>>))

C9_Witness ==
    /\ Called("_validate_range")
    /\ args = <<PyNone, PyInt(1), PyInt(3), PyInt(1), PyInt(2)>>
    /\ ValidCoords
    /\ ret = Return(PyStr(<<65, 49, 58, 66, 51>>))

\* the text is a bounded rectangle: 1-3 letters, digits, ":", 1-3 letters,
\* digits
BoundedText(x) ==
    x.t = "str" /\ range_regex_match(x.s).m /\ ~range_regex_match(x.s).cols_only

TextInverted(q) ==
    LET g == range_regex_match(q)
    IN  \/ BijectiveValue(Upper(g.col_2), 0) < BijectiveValue(Upper(g.col_1), 0)
        \/ DigitsValue(g.row_2, 0) < DigitsValue(g.row_1, 0)

\* C10 (as claimed): for a bounded rectangle, given as text or as four
\* coordinates, _validate_range fails with InvalidRangeError exactly when
\* the end column is less than the start column or the end row is less than
\* the start row; with start <= end in both dimensions it is accepted.
C10_InvertedRejected ==
    /\ (Called("_validate_range") /\ BoundedText(args[1])
          /\ \A k \in 2..5 : args[k] = PyNone)
          => IF TextInverted(args[1].s)
             THEN ret = Raise("InvalidRangeError")
             ELSE ret = Return(args[1])
    /\ (Called("_validate_range") /\ args[1] = PyNone /\ FourInts
          /\ args[2].i >= 1 /\ args[3].i >= 1
          /\ args[4].i \in 1..MaxColumn /\ args[5].i \in 1..MaxColumn)
          => IF args[5].i < args[4].i \/ args[3].i < args[2].i
             THEN ret = Raise("InvalidRangeError")
             ELSE ret.kind = "return"

----------------------------------------------------------------------------
NoCoords == \A k \in 2..5 : args[k] = PyNone

\* C11 (as claimed): _validate_range given a range text that matches neither
\* the bounded form nor the whole-column form, and no coordinates, fails
\* with InvalidRangeError.
C11_MalformedTextRejected ==
    (Called("_validate_range") /\ args[1].t = "str" /\ NoCoords
        /\ ~range_regex_match(args[1].s).m)
        => ret = Raise("InvalidRangeError")

SomeCoord == \E k \in 2..5 : Supplied(args[k])

AllCoords == \A k \in 2..5 : Supplied(args[k])

\* C12 (as claimed): _validate_range fails with InvalidRangeError when the
\* four coordinates are only partially supplied, when a range text and all
\* four coordinates are supplied together, and when neither a range text
\* nor any coordinate is supplied.
C12_BadCombinationRejected ==
    (Called("_validate_range")
        /\ \/ SomeCoord /\ ~AllCoords
           \/ Supplied(args[1]) /\ AllCoords
           \/ ~Supplied(args[1]) /\ ~SomeCoord)
        => ret = Raise("InvalidRangeError")

\* C13 (as claimed): for every four coordinates that _validate_range accepts,
\* the text it returns, passed back as the range argument with no
\* coordinates, is accepted and returned unchanged.
C13_CanonicalTextReparses ==
    (Called("_validate_range") /\ args[1] = PyNone /\ AllCoords /\ ret.kind = "return")
        => _validate_range(ret.val[1], PyNone, PyNone, PyNone, PyNone) = ret

----------------------------------------------------------------------------
IsExcelDate == pc = "done" /\ fn \in {"excel_date", "ExcelSpreadSheet.excel_date"}

\* whole days from 1899-12-30 to the day y-m-d
DaysSinceEpoch(y, m, d) == toordinal(y, m, d) - toordinal(1899, 12, 30)

\* C14 (as claimed): excel_date of a single date or timestamp is (whole days
\* since 1899-12-30) + (seconds into the day) / 86400: a date counts as
\* midnight (date(1900, 1, 1) gives 2.0) and a timestamp keeps its time of
\* day as the fraction (midday of 1899-12-31 gives 1.5).
C14_DaysAndDayFraction ==
    /\ (IsExcelDate /\ args[1].t = "date")
          => ret = Return(PyFloat(
                 DaysSinceEpoch(args[1].s[1], args[1].s[2], args[1].s[3]), 0))
    /\ (IsExcelDate /\ args[1].t = "datetime")
          => ret = Return(PyFloat(
                 DaysSinceEpoch(args[1].s[1], args[1].s[2], args[1].s[3]), args[1].s[4]))
    /\ (IsExcelDate /\ args = <<PyDate(1900, 1, 1)>>) => ret = Return(PyFloat(2, 0))
    /\ (IsExcelDate /\ args = <<PyDatetime(1899, 12, 31, 43200)>>)
          => ret = Return(PyFloat(1, 43200))

----------------------------------------------------------------------------
(* The operations on an open workbook *)

CellOps == {"write_cell", "write_row", "write_dataframe", "read_cell"}

RangeOps == {"read_dataframe", "format_range", "conditional_formatting"}

\* cellref, row, col of the last call of a cell operation
CellOf ==
    IF fn = "write_cell" THEN <<args[5], args[3], args[4]>>
    ELSE IF fn = "read_cell" THEN <<args[2], args[4], args[3]>>
    ELSE <<args[3], args[4], args[5]>>

\* range text, startrow, endrow, startcol, endcol of the last call of a
\* range operation
RangeOf ==
    IF fn = "format_range" THEN SubSeq(args, 2, 6) ELSE SubSeq(args, 3, 7)

\* a column is an index within 1..18278 or 1 to 3 letters, a row a number
\* from 1 on
BadColumn(col) ==
    IF col.t = "int" THEN col.i \notin 1..MaxColumn
    ELSE col.t # "str" \/ Len(col.s) \notin 1..3 \/ ~AllAlpha(col.s)

BadRow(row) == row.t # "int" \/ row.i < 1

BadCell(cellref, row, col) ==
    \/ ~ExactlyOneForm(cellref, row, col)
    \/ Supplied(cellref) /\ ~StrictCellRef(cellref.s)
    \/ Supplied(row) /\ BadRow(row)
    \/ Supplied(col) /\ BadColumn(col)

BadRange(x, startrow, endrow, startcol, endcol) ==
    LET coords == {startrow, endrow, startcol, endcol}
        m      == range_regex_match(x.s)
    IN  IF Supplied(x)
        THEN \/ \E c \in coords : Supplied(c)
             \/ ~m.m
             \/ x.s[Len(x.s)] = 10
             \/ ~m.cols_only /\ (TextInverted(x.s) \/ DigitsValue(m.row_1, 0) < 1)
        ELSE \/ BadRow(startrow) \/ BadRow(endrow)
             \/ BadColumn(startcol) \/ BadColumn(endcol)
             \/ startcol.t # "int" \/ endcol.t # "int"
             \/ startrow.i > endrow.i \/ startcol.i > endcol.i

\* the last call is an operation on cells or ranges with invalid coordinates
BadCoordinates ==
    /\ pc = "done"
    /\ \/ fn \in CellOps /\ BadCell(CellOf[1], CellOf[2], CellOf[3])
       \/ fn = "write_row" /\ Supplied(args[6]) /\ BadColumn(args[6])
       \/ fn \in RangeOps
          /\ BadRange(RangeOf[1], RangeOf[2], RangeOf[3], RangeOf[4], RangeOf[5])

\* C15 (as claimed): a call of write_cell, write_row, write_dataframe,
\* read_cell, read_dataframe, format_range or conditional_formatting with an
\* invalid column, row, cell reference or range raises before any call or
\* property change on the host: the host is as it was before the call.
C15_InvalidCoordinatesNoHostCall ==
    [][BadCoordinates'
          => (ret'.kind = "raise" /\ calls' = <<>> /\ UNCHANGED <<excel, book>>)]_vars

\* C16 (as claimed): open while a workbook is open returns without raising
\* and leaves wb, _wb_open and sheetnames as they were.
C16_OpenWhileOpenNoAction ==
    [][(pc' = "done" /\ fn' = "open" /\ _wb_open = 1)
          => (ret'.kind = "return" /\ UNCHANGED <<wb, _wb_open, sheetnames>>)]_vars

WorkbookOps ==
    {"write_cell", "write_row", "write_dataframe", "read_cell", "read_dataframe",
     "delete_sheet", "set_sheet_visibility", "protect_sheet", "unprotect_sheet",
     "protect_workbook", "unprotect_workbook", "get_sheetnames", "refresh_all",
     "format_range", "conditional_formatting", "reset_cursor", "save_xlsx", "save_pdf"}

\* C17 (as claimed): every operation that needs a workbook, called while no
\* workbook is open (before the first successful open, or after close),
\* fails with NoWorkbookError and makes no call on the host.
C17_NoWorkbookError ==
    [][(pc' = "done" /\ fn' \in WorkbookOps /\ _wb_open = 0)
          => (ret' = Raise("NoWorkbookError") /\ calls' = <<>>)]_vars

\* the integer of a visibility as documented: "visible", "hidden",
\* "very hidden", -1, 1 or 2; 0 for any other value
VisibilityOf(v) ==
    IF v.t = "str" /\ InVisibilityValues(v.s) THEN VisibilityValue(v.s)
    ELSE IF v.t = "int" /\ v.i \in {-1, 1, 2} THEN v.i
    ELSE 0

\* C18 (as claimed): on a sheet of the open workbook, set_sheet_visibility
\* given "visible", "hidden", "very hidden", -1, 1 or 2 sets the sheet's
\* Visible to the corresponding integer; given any other value it raises
\* ValueError and leaves Visible as it was.
C18_VisibilityValues ==
    [][(pc' = "done" /\ fn' = "set_sheet_visibility" /\ _wb_open = 1
          /\ _validate_worksheet(args'[1]).kind = "return"
          /\ SheetIndex(book, args'[1]) # 0)
          => LET n == SheetIndex(book, args'[1])
                 v == VisibilityOf(args'[2])
             IN  IF v # 0
                 THEN ret'.kind = "return" /\ book'[n].Visible = PyInt(v)
                 ELSE ret' = Raise("ValueError") /\ book'[n].Visible = book[n].Visible]_vars

\* the column a write_row call starts at: startcol, or the letter of cellref
StartColOf ==
    IF Supplied(args[3]) THEN BijectiveValue(Upper(<<args[3].s[1]>>), 0) ELSE args[5].i

\* C19 (as claimed): write_row with endcol, on an unprotected sheet of the
\* open workbook with valid data and coordinates (startcol <= endcol), warns
\* exactly when the length of the data is not the width of startcol..endcol,
\* writes the range from startcol to endcol of startrow, and writes no more
\* values than the range is wide.
C19_RowRangeAndTruncation ==
    (/\ Called("write_row") /\ _wb_open = 1 /\ Supplied(args[6])
     /\ args[1].t \in {"tuple", "Series"}
     /\ _validate_worksheet(args[2]).kind = "return" /\ SheetIndex(book, args[2]) # 0
     /\ ~book[SheetIndex(book, args[2])].ProtectContents
     /\ ~BadCoordinates
     /\ StartColOf <= args[6].i)
        => LET width == args[6].i - StartColOf + 1
           IN  /\ ret.kind = "return"
               /\ warned = (Len(args[1].s) # width)
               /\ calls[3].call = "Cells" /\ calls[3].a[2] = PyInt(StartColOf)
               /\ calls[4].call = "Cells" /\ calls[4].a[2] = args[6]
               /\ calls[6].call = "Value=" /\ Len(calls[6].a[1].s) <= width

Writes == {"write_cell", "write_row", "write_dataframe"}

\* the last call is a write with data of the kind the operation takes and
\* valid coordinates
ValidWrite ==
    /\ pc = "done" /\ fn \in Writes /\ ~BadCoordinates
    /\ fn = "write_cell" => args[1].t = "int"
    /\ fn = "write_row" => args[1].t \in {"tuple", "Series"}
    /\ fn = "write_dataframe" => args[1].t = "DataFrame"

\* C20 (as claimed): on an open workbook, a write to a sheet whose contents
\* are protected raises InvalidSheetError and leaves the sheet's cells as
\* they were; the cells of a sheet change only by a write made while the
\* sheet is unprotected; protect_sheet on a protected sheet and
\* unprotect_sheet on an unprotected one warn and change nothing.
C20_ProtectedSheetNotWritten ==
    [][(pc' = "done" /\ _wb_open = 1 /\ _wb_open' = 1 /\ Len(book') = Len(book))
          => /\ \A n \in 1..Len(book) :
                   book'[n].Cells # book[n].Cells
                      => fn' \in Writes /\ ~book[n].ProtectContents
             /\ (fn' \in Writes \cup {"protect_sheet", "unprotect_sheet"}
                   /\ _validate_worksheet(args'[IF fn' \in Writes THEN 2 ELSE 1]).kind
                         = "return"
                   /\ SheetIndex(book, args'[IF fn' \in Writes THEN 2 ELSE 1]) # 0)
                   => LET n == SheetIndex(book, args'[IF fn' \in Writes THEN 2 ELSE 1])
                      IN  /\ (ValidWrite' /\ book[n].ProtectContents)
                                => /\ ret' = Raise("InvalidSheetError")
                                   /\ book'[n].Cells = book[n].Cells
                          /\ (fn' = "protect_sheet" /\ book[n].ProtectContents)
                                => warned' /\ book' = book
                          /\ (fn' = "unprotect_sheet" /\ ~book[n].ProtectContents)
                                => warned' /\ book' = book]_vars

\* no name occurs twice in a list of sheet names
NoDuplicates(names) ==
    \A j, k \in 1..Len(names) : names[j] = names[k] => j = k

\* C21 (as claimed): in every state reached by open (succeeding or failing
\* at any host call), delete_sheet and close, _wb_open is 1 exactly when wb
\* is not None; when _wb_open is 0 sheetnames is empty; when _wb_open is 1
\* sheetnames is the list of the names of the workbook's sheets, in order
\* and without duplicates.
C21_OpenFlagHandleAndNames ==
    /\ (_wb_open = 1) <=> (wb # PyNone)
    /\ _wb_open = 0 => sheetnames = <<>>
    /\ _wb_open = 1 => (sheetnames = SheetNames(book) /\ NoDuplicates(sheetnames))

====
